---- MODULE Spec2Model ----
(***************************************************************************)
(* Model of the Stripe <-> Notion invoice synchronisation service          *)
(* (jdblackstar/notion-invoices).                                          *)
(*                                                                         *)
(* Two sides are modelled: the payments side (Stripe: invoices with their  *)
(* creation and last-modification instants) and the document side (the     *)
(* Notion invoice database: an ordered collection of pages).  The engine   *)
(* operations are those of app/services/sync_service.py together with the  *)
(* NotionService / StripeService methods they call.                        *)
(*                                                                         *)
(* Time is a discrete UTC clock.  One tick is half a day divided by        *)
(* MaxUtcOffset, so that a process-local UTC offset is a whole number of   *)
(* ticks between -MaxUtcOffset and +MaxUtcOffset (-12h .. +12h).           *)
(*                                                                         *)
(* Text (the Stripe description / memo) is a sequence of tokens.  The      *)
(* literal label "Billing Period:" is one token: it has no proper border   *)
(* (no prefix of it is also a suffix), so an occurrence can neither overlap*)
(* another occurrence nor be assembled from the other tokens, and substring*)
(* containment, startswith and split("\n") act on the token sequence as    *)
(* they act on the characters.                                             *)
(***************************************************************************)
EXTENDS Integers, Sequences, FiniteSets, TLC

VARIABLES
    now,              \* the UTC clock, in ticks
    utcOffset,        \* UTC offset of the process's local clock, in ticks
    templateId,       \* Config.NOTION_INVOICE_TEMPLATE_ID is set
    stripe,           \* payments side: invoice id -> invoice (or absent)
    notion,           \* document side: the invoice database, pages in scan order
    last,             \* the most recent engine call, its result and its writes
    seq,              \* consecutive successful transfers of one identifier
    description,      \* merge: the payments-side annotation (Stripe description)
    billing_period,   \* merge: the billing period held by the Notion page
    history,          \* merge: the annotation before and after each merge
    descriptions,     \* payments side: invoice id -> annotation (description)
    tasks,            \* the drivers as coroutines: where each one stands
    running,          \* event loop -> the coroutine that holds its thread
    background_task,  \* main.py: the periodic task, where it stands
    lifespan,         \* main.py: the phase of the server, its configuration
    retrieve          \* the last lookup by page identifier: given, passed on

vars == <<now, utcOffset, templateId, stripe, notion, last, seq, description,
          billing_period, history, descriptions, tasks, running,
          background_task, lifespan, retrieve>>

mainVars == <<now, utcOffset, templateId, stripe, notion, last, seq>>

mergeVars == <<description, billing_period, history, descriptions>>

serverVars == <<background_task, lifespan>>

clientVars == <<retrieve>>

loopVars == <<tasks, running, serverVars, clientVars>>

(***************************************************************************)
(* Bounds of the model.                                                    *)
(***************************************************************************)
MaxMemoLen == 4
MaxMerges == 2

MaxDays == 2
MaxUtcOffset == 1
MaxPages == 2

\* Python's None for an optional string, and for an optional datetime.
None == "None"
NoDate == [date |-> "None", time |-> "None"]

(***************************************************************************)
(* Text helpers: Python's str.split("\n"), "\n".join, str.strip,           *)
(* str.startswith and the "in" operator, on token sequences.               *)
(***************************************************************************)
LABEL == "Billing Period:"
NL == "\n"
SP == " "
Whitespace == {SP, NL}
MemoTokens == {"x", SP, NL, LABEL}

RECURSIVE Split(_)
Split(s) ==
    IF \A i \in 1..Len(s) : s[i] # NL
    THEN <<s>>
    ELSE LET k == CHOOSE i \in 1..Len(s) :
                      s[i] = NL /\ \A j \in 1..(i - 1) : s[j] # NL
         IN  <<SubSeq(s, 1, k - 1)>> \o Split(SubSeq(s, k + 1, Len(s)))

RECURSIVE Join(_)
Join(lines) ==
    IF Len(lines) = 0 THEN <<>>
    ELSE IF Len(lines) = 1 THEN lines[1]
    ELSE lines[1] \o <<NL>> \o Join(Tail(lines))

RECURSIVE LStrip(_)
LStrip(s) ==
    IF Len(s) > 0 /\ s[1] \in Whitespace THEN LStrip(Tail(s)) ELSE s

RECURSIVE RStrip(_)
RStrip(s) ==
    IF Len(s) > 0 /\ s[Len(s)] \in Whitespace
    THEN RStrip(SubSeq(s, 1, Len(s) - 1))
    ELSE s

Strip(s) == RStrip(LStrip(s))

Contains(s, tok) == \E i \in 1..Len(s) : s[i] = tok

StartsWith(s, tok) == Len(s) > 0 /\ s[1] = tok

(***************************************************************************)
(* Dates.  A datetime is a calendar date and a time of day; strftime with  *)
(* "%Y-%m-%d" keeps the calendar date only.                                *)
(***************************************************************************)
Dates == {"2024-01-01", "2024-01-31"}
DayTimes == {"00:00", "12:00"}
DateTimes == [date : Dates, time : DayTimes]

strftime(dt) == <<dt.date>>

\* SyncService._format_billing_period
_format_billing_period(start_date, end_date) ==
    IF start_date = NoDate THEN <<>>
    ELSE IF end_date # NoDate
         THEN strftime(start_date) \o <<SP, "to", SP>> \o strftime(end_date)
         ELSE strftime(start_date)

\* f"Billing Period: {billing_period_text}"
BillingPeriodLine(text) == <<LABEL, SP>> \o text

\* The append branch alone, as if the label were never looked for.
MergeAlwaysAppend(memo, start_date, end_date) ==
    Strip(memo \o <<NL>> \o
          BillingPeriodLine(_format_billing_period(start_date, end_date)))

\* The replace branch with the whole result trimmed, as the append branch is.
MergeStripAlways(memo, start_date, end_date) ==
    LET line == BillingPeriodLine(_format_billing_period(start_date, end_date))
    IN  IF Contains(memo, LABEL)
        THEN Strip(Join([i \in 1..Len(Split(memo)) |->
                    IF StartsWith(Split(memo)[i], LABEL)
                    THEN line ELSE Split(memo)[i]]))
        ELSE Strip(memo \o <<NL>> \o line)

\* SyncService.handle_notion_update, the billing-period merge into the memo
\* (the block under "if notion_invoice.billing_period_start").
MergeBillingPeriod(memo, start_date, end_date) ==
    LET billing_period_text == _format_billing_period(start_date, end_date)
        line == BillingPeriodLine(billing_period_text)
        memo_lines == Split(memo)
        updated_lines == [i \in 1..Len(memo_lines) |->
                            IF StartsWith(memo_lines[i], LABEL)
                            THEN line
                            ELSE memo_lines[i]]
    IN  IF Contains(memo, LABEL)
        THEN Join(updated_lines)
        ELSE Strip(memo \o <<NL>> \o line)

(***************************************************************************)
(* The record model (app/models/invoice.py).                               *)
(***************************************************************************)
StripeIds == {"in_1", "in_2"}

\* Status strings the payments side reports, and one outside the table.
StripeStatuses == {"draft", "open", "paid", "uncollectible", "void", "unknown"}

\* The status strings the events of the model carry, and those of the records
\* it fetches.
SampleStatuses == {"open", "unknown"}
FetchedStatuses == {"open"}

\* InvoiceStatus (a str Enum: each member is its value)
DRAFT == "draft"
OPEN == "open"
PAID == "paid"
UNCOLLECTIBLE == "uncollectible"
VOID == "void"
DELETED == "deleted"
InvoiceStatus == {DRAFT, OPEN, PAID, UNCOLLECTIBLE, VOID, DELETED}

\* status_map.get(self.status, InvoiceStatus.DRAFT) of StripeInvoice.to_invoice_model
stripe_status_map(status) ==
    CASE status = "draft" -> DRAFT
      [] status = "open" -> OPEN
      [] status = "paid" -> PAID
      [] status = "uncollectible" -> UNCOLLECTIBLE
      [] status = "void" -> VOID
      [] OTHER -> DRAFT

\* datetime.now(): the naive wall-clock reading of the process's local clock.
datetime_now == now + utcOffset

\* self.id.split("_")[-1][-8:].upper() on the identifiers of the model.
id_part(id) ==
    CASE id = "in_1" -> "1"
      [] id = "in_2" -> "2"
      [] OTHER -> id

\* The number to_invoice_model gives an invoice that Stripe gave none (the
\* records of the model carry no "number"): the identifier's last part, with
\* "-DRAFT" for a draft.
generated_invoice_number(stripe_invoice) ==
    id_part(stripe_invoice.id)
        \o (IF stripe_invoice.status = "draft" THEN "-DRAFT" ELSE "")

\* StripeInvoice.to_invoice_model: the shared Invoice built from a Stripe record.
\* stripe_updated_at is the instant of the conversion, not an instant reported
\* by Stripe; the billing period is left empty.
to_invoice_model(stripe_invoice) ==
    [id |-> stripe_invoice.id,
     invoice_number |-> generated_invoice_number(stripe_invoice),
     status |-> stripe_status_map(stripe_invoice.status),
     stripe_updated_at |-> datetime_now,
     billing_period_start |-> NoDate,
     billing_period_end |-> NoDate]

\* The table read without a default: status_map.get(invoice.status).
StatusMapWithoutDefault(status) ==
    CASE status = DRAFT -> "Draft"
      [] status = OPEN -> "Pending"
      [] status = PAID -> "Paid"
      [] status = UNCOLLECTIBLE -> "Void"
      [] status = VOID -> "Void"
      [] OTHER -> None

\* status_map.get(invoice.status, "Draft") of _invoice_to_notion_properties
notion_status_map(status) ==
    CASE status = DRAFT -> "Draft"
      [] status = OPEN -> "Pending"
      [] status = PAID -> "Paid"
      [] status = UNCOLLECTIBLE -> "Void"
      [] status = VOID -> "Void"
      [] OTHER -> "Draft"

\* A link that ends with a separator.
LinkWithTrailingSlash(id) ==
    <<"https://dashboard.stripe.com", "/", "invoices", "/", id, "/">>

\* A URL is the sequence of its tokens: the separators "/" and "?" and the
\* text between them.
\* f"https://dashboard.stripe.com/invoices/{invoice.id}"
StripeLink(id) == <<"https://dashboard.stripe.com", "/", "invoices", "/", id>>

\* The text a sequence of tokens spells.
RECURSIVE Concat(_)
Concat(tokens) ==
    IF tokens = <<>> THEN "" ELSE Head(tokens) \o Concat(Tail(tokens))

\* A missing or empty "Stripe link" property.
NoUrl == <<>>

\* text[j..k] holds no "/" and is followed by "?" or by the end of the text:
\* ([^/]+)(?:\?|$) can match exactly there.
group_ends(text, j, k) ==
    /\ \A m \in j..k : text[m] # "/"
    /\ (k = Len(text) \/ text[k + 1] = "?")

\* The positions of an "invoices/" at which the pattern matches.
match_starts(text) ==
    {i \in 1..(Len(text) - 2) :
        /\ text[i] = "invoices"
        /\ text[i + 1] = "/"
        /\ \E k \in (i + 2)..Len(text) : group_ends(text, i + 2, k)}

\* The group of the match that begins at i: "+" is greedy.
match_group(text, i) ==
    Concat(SubSeq(text, i + 2,
                  CHOOSE a \in (i + 2)..Len(text) :
                      /\ group_ends(text, i + 2, a)
                      /\ \A b \in (a + 1)..Len(text) :
                             ~group_ends(text, i + 2, b)))

\* re.search on the text of a url: the leftmost match, None without one.
search_invoices(text) ==
    LET starts == match_starts(text)
    IN  IF starts = {} THEN None
        ELSE match_group(text, CHOOSE a \in starts : \A b \in starts : a <= b)

\* The links a user may have put on a page.
Links ==
    {NoUrl, StripeLink("in_1"), StripeLink("in_2"), StripeLink("cus_1"),
     StripeLink("in_1") \o <<"?", "tab=details">>}

\* The searches of the links the model holds, made once.
searched ==
    [url \in Links \cup {StripeLink(id) : id \in StripeIds} |->
        search_invoices(SelectSeq(url, LAMBDA t : t # ""))]

\* _extract_stripe_id_from_url: re.search(r"invoices/([^/]+)(?:\?|$)", url).
\* The match begins at the leftmost "invoices/"; the group is the longest run
\* of text without "/" after it that is followed by "?" or by the end of the
\* url ("+" is greedy and "?" is not excluded from the run).
_extract_stripe_id_from_url(url) ==
    IF url \in DOMAIN searched THEN searched[url]
    ELSE search_invoices(SelectSeq(url, LAMBDA t : t # ""))

\* Properties that hold a "Billing Period" whatever the invoice holds.
PropertiesWithPeriodAlways(invoice) ==
    [keys |-> {"Status", "Stripe link", "Invoice Number", "Billing Period"},
     status |-> notion_status_map(invoice.status),
     url |-> StripeLink(invoice.id),
     title |-> IF invoice.invoice_number \notin {None, ""}
               THEN invoice.invoice_number ELSE invoice.id,
     billing_period |-> [start |-> invoice.billing_period_start,
                         end |-> invoice.billing_period_end]]

\* NotionService._invoice_to_notion_properties.  "Status", "Stripe link" and
\* "Invoice Number" are always set; "Billing Period" is a key of the
\* properties only for an invoice that holds a billing period start.
_invoice_to_notion_properties(invoice) ==
    [keys |-> {"Status", "Stripe link", "Invoice Number"}
                 \cup (IF invoice.billing_period_start # NoDate
                       THEN {"Billing Period"} ELSE {}),
     status |-> notion_status_map(invoice.status),
     url |-> StripeLink(invoice.id),
     title |-> IF invoice.invoice_number \notin {None, ""}
               THEN invoice.invoice_number ELSE invoice.id,
     billing_period |-> [start |-> invoice.billing_period_start,
                         end |-> invoice.billing_period_end]]

\* The billing period of a page written with the properties: a property
\* that is no key of the request is left as it is.
written_period(properties, period) ==
    IF "Billing Period" \in properties.keys THEN properties.billing_period
    ELSE period

(***************************************************************************)
(* The document side.  A page's identifier is its position in the          *)
(* database; pages are archived, never removed.  0 stands for "no page".   *)
(***************************************************************************)
page_size == 100

\* A creation that leaves the "Stripe link" of the new page empty.
CreateUnlinked(db, properties) ==
    Append(db, [url |-> NoUrl, status |-> properties.status,
                title |-> properties.title, edited |-> now, archived |-> FALSE,
                billing_period |-> [start |-> NoDate, end |-> NoDate]])

\* client.pages.create.  The properties built from a Stripe invoice hold no
\* "Billing Period" (to_invoice_model leaves it empty): the new page has none.
pages_create(db, properties) ==
    Append(db, [url |-> properties.url, status |-> properties.status,
                title |-> properties.title, edited |-> now, archived |-> FALSE,
                billing_period |->
                    written_period(properties,
                                   [start |-> NoDate, end |-> NoDate])])

\* client.pages.update(page_id, properties=...)
pages_update(db, page_id, properties) ==
    [db EXCEPT ![page_id] = [@ EXCEPT !.url = properties.url,
                                      !.status = properties.status,
                                      !.title = properties.title,
                                      !.billing_period =
                                          written_period(properties, @),
                                      !.edited = now]]

\* client.pages.update(page_id, archived=True)
pages_archive(db, page_id) ==
    [db EXCEPT ![page_id] = [@ EXCEPT !.archived = TRUE, !.edited = now]]

\* client.databases.query(database_id, page_size=100): the first page of results,
\* without the archived pages.
databases_query(db) ==
    LET live == SelectSeq([i \in 1..Len(db) |-> i], LAMBDA p : ~db[p].archived)
    IN  SubSeq(live, 1, IF Len(live) < page_size THEN Len(live) ELSE page_size)

\* A lookup that returns the last of the matching pages.
QueryLastMatch(db, stripe_id, ok) ==
    LET matching == {p \in 1..Len(db) :
                        /\ ~db[p].archived
                        /\ _extract_stripe_id_from_url(db[p].url) = stripe_id}
    IN  IF ~ok \/ matching = {} THEN 0
        ELSE CHOOSE p \in matching : \A q \in matching : q <= p

\* NotionService.query_invoice_by_stripe_id: the page found, or 0.
\* ok = the databases.query request succeeded within its retries.
query_invoice_by_stripe_id(db, stripe_id, ok) ==
    IF ~ok THEN 0
    ELSE LET results == databases_query(db)
             matching_pages ==
                 SelectSeq(results,
                     LAMBDA p : LET url_stripe_id ==
                                        _extract_stripe_id_from_url(db[p].url)
                                IN  url_stripe_id # None /\ url_stripe_id = stripe_id)
         IN  IF results = <<>> THEN 0
             ELSE IF matching_pages = <<>> THEN 0
             ELSE matching_pages[1]

\* One entry of the log of write requests issued to the document side.
Write(call, page, ok) == [call |-> call, page |-> page, ok |-> ok]

\* Outcomes of the external calls one transfer may make: whether each request
\* succeeds within its retries, and whether the template holds blocks to copy.
\* A flag of a call that is not reached has one value only: without a template
\* there is no list, append or fallback call; no blocks are copied when the
\* list call fails; nothing is appended when there are no blocks.
Outcomes ==
    IF templateId
    THEN {o \in [query : BOOLEAN, write : BOOLEAN, list : BOOLEAN,
                 blocks : BOOLEAN, append : BOOLEAN, fallback : BOOLEAN] :
             /\ ~o.list => ~o.blocks
             /\ ~o.blocks => o.append}
    ELSE [query : BOOLEAN, write : BOOLEAN, list : {TRUE}, blocks : {FALSE},
          append : {TRUE}, fallback : {TRUE}]

\* NotionService._create_invoice_without_template
_create_invoice_without_template(db, invoice, o, log) ==
    IF o.fallback
    THEN [db |-> pages_create(db, _invoice_to_notion_properties(invoice)),
          id |-> Len(db) + 1,
          log |-> Append(log, Write("pages.create", Len(db) + 1, TRUE))]
    ELSE [db |-> db, id |-> 0,
          log |-> Append(log, Write("pages.create", 0, FALSE))]

\* NotionService._create_invoice_from_template
_create_invoice_from_template(db, invoice, o) ==
    LET new_page_id == Len(db) + 1
        db1 == pages_create(db, _invoice_to_notion_properties(invoice))
        log1 == <<Write("pages.create", new_page_id, TRUE)>>
    IN  IF ~o.write
        THEN _create_invoice_without_template(db, invoice, o,
                 <<Write("pages.create", 0, FALSE)>>)
        ELSE IF ~o.list
        THEN _create_invoice_without_template(db1, invoice, o, log1)
        ELSE IF ~o.blocks
        THEN [db |-> db1, id |-> new_page_id, log |-> log1]
        ELSE IF o.append
        THEN [db |-> db1, id |-> new_page_id,
              log |-> Append(log1, Write("blocks.append", new_page_id, TRUE))]
        ELSE _create_invoice_without_template(db1, invoice, o,
                 Append(log1, Write("blocks.append", new_page_id, FALSE)))

\* A write that looks the counterpart up again when it is issued.
WriteLooksAgain(db, invoice, existing_invoice, o) ==
    LET properties == _invoice_to_notion_properties(invoice)
        again == IF \E p \in 1..Len(db) :
                       /\ ~db[p].archived
                       /\ _extract_stripe_id_from_url(db[p].url) = invoice.id
                 THEN CHOOSE p \in 1..Len(db) :
                          /\ ~db[p].archived
                          /\ _extract_stripe_id_from_url(db[p].url) = invoice.id
                 ELSE 0
    IN  IF again # 0
        THEN [db |-> pages_update(db, again, properties), id |-> again,
              log |-> <<Write("pages.update", again, TRUE)>>]
        ELSE [db |-> pages_create(db, properties), id |-> Len(db) + 1,
              log |-> <<Write("pages.create", Len(db) + 1, TRUE)>>]

\* NotionService.create_or_update_invoice after its lookup returned
\* existing_invoice (0 = None): the update or the creation.
write_counterpart(db, invoice, existing_invoice, o) ==
    LET properties == _invoice_to_notion_properties(invoice)
    IN  IF existing_invoice # 0
        THEN IF o.write
             THEN [db |-> pages_update(db, existing_invoice, properties),
                   id |-> existing_invoice,
                   log |-> <<Write("pages.update", existing_invoice, TRUE)>>]
             ELSE [db |-> db, id |-> 0,
                   log |-> <<Write("pages.update", existing_invoice, FALSE)>>]
        ELSE IF templateId
        THEN _create_invoice_from_template(db, invoice, o)
        ELSE IF o.write
        THEN [db |-> pages_create(db, properties), id |-> Len(db) + 1,
              log |-> <<Write("pages.create", Len(db) + 1, TRUE)>>]
        ELSE [db |-> db, id |-> 0, log |-> <<Write("pages.create", 0, FALSE)>>]

\* NotionService.create_or_update_invoice: [db, id (0 = None), log].
create_or_update_invoice(db, invoice, o) ==
    LET existing_invoice ==
            IF invoice.id # ""
            THEN query_invoice_by_stripe_id(db, invoice.id, o.query)
            ELSE 0
    IN  write_counterpart(db, invoice, existing_invoice, o)

\* A deletion that reports success when there was nothing to archive.
DeleteReportsNothingToDo(db, stripe_id, o) ==
    LET existing_invoice == query_invoice_by_stripe_id(db, stripe_id, o.query)
    IN  IF existing_invoice = 0
        THEN [db |-> db, ok |-> TRUE, log |-> <<>>]
        ELSE IF o.write
        THEN [db |-> pages_archive(db, existing_invoice), ok |-> TRUE,
              log |-> <<Write("pages.archive", existing_invoice, TRUE)>>]
        ELSE [db |-> db, ok |-> FALSE,
              log |-> <<Write("pages.archive", existing_invoice, FALSE)>>]

\* NotionService.delete_invoice_by_stripe_id: [db, ok, log].
delete_invoice_by_stripe_id(db, stripe_id, o) ==
    LET existing_invoice == query_invoice_by_stripe_id(db, stripe_id, o.query)
    IN  IF existing_invoice = 0
        THEN [db |-> db, ok |-> FALSE, log |-> <<>>]
        ELSE IF o.write
        THEN [db |-> pages_archive(db, existing_invoice), ok |-> TRUE,
              log |-> <<Write("pages.archive", existing_invoice, TRUE)>>]
        ELSE [db |-> db, ok |-> FALSE,
              log |-> <<Write("pages.archive", existing_invoice, FALSE)>>]

\* A transfer that does not look at the status first.
SyncWithoutDeletedCheck(db, invoice, o) ==
    LET r == create_or_update_invoice(db, invoice, o)
    IN  [db |-> r.db, ok |-> r.id # 0, id |-> r.id, log |-> r.log]

\* SyncService._sync_to_notion: [db, ok, id (0 = None), log].
_sync_to_notion(db, invoice, o) ==
    IF invoice.status = DELETED
    THEN LET r == delete_invoice_by_stripe_id(db, invoice.id, o)
         IN  [db |-> r.db, ok |-> r.ok, id |-> 0, log |-> r.log]
    ELSE LET r == create_or_update_invoice(db, invoice, o)
         IN  [db |-> r.db, ok |-> r.id # 0, id |-> r.id, log |-> r.log]


(***************************************************************************)
(* The payments side.                                                      *)
(***************************************************************************)
\* timedelta(days=1), in ticks.
TicksPerDay == 2 * MaxUtcOffset

NoInvoice == [exists |-> FALSE, created |-> 0, modified |-> 0]

\* Sequences without repetition that enumerate the set S.
Orderings(S) ==
    {f \in [1..Cardinality(S) -> S] : \A i, j \in 1..Cardinality(S) :
                                          i # j => f[i] # f[j]}

\* stripe.Invoice.list(limit=100, created={"gte": created_after}): the possible
\* results: the invoices created at or after created_after, newest first, at
\* most `limit` of them, each with the status string it carries.
stripe_Invoice_list(limit, created_after) ==
    LET S == {id \in StripeIds :
                  stripe[id].exists /\ stripe[id].created >= created_after}
        sorted == {g \in Orderings(S) :
                      \A i, j \in 1..Len(g) :
                          i < j => stripe[g[i]].created >= stripe[g[j]].created}
        n == IF Cardinality(S) < limit THEN Cardinality(S) ELSE limit
    IN  {[i \in 1..n |-> [id |-> g[i], status |-> sts[i]]] :
            g \in sorted, sts \in [1..n -> FetchedStatuses]}

stripe_list_limit == 100

\* The windows the batch pass is called with, in days.
DaysBack == {1}

\* StripeService.get_recent_invoices: the possible results.
\* ok = the list request succeeded within its retries.
get_recent_invoices(days_back, ok) ==
    LET created_after == now - days_back * TicksPerDay
    IN  IF ok THEN stripe_Invoice_list(stripe_list_limit, created_after)
        ELSE {<<>>}

(***************************************************************************)
(* History kept for the properties.                                        *)
(***************************************************************************)
NoStats == [total |-> 0, synced |-> 0, failed |-> 0, unchanged |-> 0,
            deleted |-> 0]

\* No webhook request: no signature header, no event.
NoRequest ==
    [signature |-> None, type |-> <<>>, object |-> [id |-> None, status |-> ""]]

\* No request to the document-side webhook.
NoPayload == [kind |-> "", keys |-> {}, page_id |-> 0]

NoCall == [op |-> "none", id |-> "", status |-> "", ok |-> FALSE, notion_id |-> 0,
           log |-> <<>>, existed |-> FALSE, days_back |-> 0, fetched |-> <<>>,
           stats |-> NoStats, reports |-> <<>>,
           raised |-> FALSE, lookup |-> 0, condition |-> "",
           http |-> 0, request |-> NoRequest, success |-> FALSE,
           calls |-> 0, payload |-> NoPayload, message |-> ""]

NoSeq == [id |-> "", n |-> 0]

(***************************************************************************)
(* The drivers as coroutines (app/main.py, app/api/webhooks.py).  A server *)
(* process has one event loop; the periodic task and the handler of each   *)
(* request are coroutines of it.                                           *)
(***************************************************************************)
\* The coroutines of the model: _run_periodic_sync (with the startup sync
\* before it) and the handlers of two webhook requests.
Tasks == {"periodic", "webhook", "webhook2"}
Handlers == {"webhook", "webhook2"}

\* The server processes of the model, each with its event loop.
Loops == {"server", "server2"}

NoTaskInvoice ==
    [id |-> "", invoice_number |-> "", status |-> "", stripe_updated_at |-> 0,
     billing_period_start |-> NoDate, billing_period_end |-> NoDate]

\* A coroutine that does not exist.
NoTask == [pc |-> "off", loop |-> "server", invoice |-> NoTaskInvoice,
           found |-> 0, todo |-> <<>>]

NoTasks == [t \in Tasks |-> NoTask]

\* No coroutine holds the thread of any loop.
NoRunning == [l \in Loops |-> "none"]

\* background_task = None: no periodic task was created.
NoBackgroundTask ==
    [pc |-> "off", must_cancel |-> FALSE, todo |-> <<>>, attempt |-> 1,
     found |-> 0, failed |-> FALSE, passes |-> <<>>, stats |-> NoStats,
     iteration |-> 0]

\* A server that is not modelled: no phase, no periodic sync configured.
NoLifespan ==
    [phase |-> "off", sync_interval |-> 0, during |-> "none", pages |-> 0]

\* No lookup by page identifier was made.
NoRetrieve == [notion_id |-> <<>>, page_id |-> <<>>, called |-> FALSE]

\* No periodic task and no server; no lookup by page identifier recorded.
NoServer ==
    /\ background_task = NoBackgroundTask
    /\ lifespan = NoLifespan
    /\ retrieve = NoRetrieve

\* The pages of db, archived or not, whose link carries the identifier.
Bearing(db, stripe_id) ==
    {p \in 1..Len(db) : _extract_stripe_id_from_url(db[p].url) = stripe_id}

\* The pages of the collection (not archived) whose link carries the identifier.
Counterparts(db, stripe_id) == {p \in Bearing(db, stripe_id) : ~db[p].archived}

\* The counterpart a complete scan finds: the first one in scan order, or 0.
Counterpart(db, stripe_id) ==
    IF Counterparts(db, stripe_id) = {} THEN 0
    ELSE CHOOSE p \in Counterparts(db, stripe_id) :
             \A q \in Counterparts(db, stripe_id) : p <= q

(***************************************************************************)
(* perform_background_sync.                                                *)
(***************************************************************************)
\* An absent datetime (None).
NoTime == -1

\* A staleness test that compares whatever it is given.
ComparesAbsentInstants(existing_invoice, last_edited_time, stripe_updated_at) ==
    existing_invoice # 0 /\ last_edited_time > stripe_updated_at

\* The staleness test of the loop: an existing counterpart with a known
\* last_edited_time, a known stripe_updated_at, and notion_time > stripe_time.
is_unchanged(existing_invoice, last_edited_time, stripe_updated_at) ==
    /\ existing_invoice # 0
    /\ last_edited_time # NoTime
    /\ stripe_updated_at # NoTime
    /\ last_edited_time > stripe_updated_at

\* The result of a transfer as the loop records it.
transferred(r, existing_invoice) ==
    [db |-> r.db, outcome |-> IF r.ok THEN "synced" ELSE "failed",
     log |-> r.log, found |-> existing_invoice]

\* The body of the loop after the staleness lookup returned existing_invoice.
sync_unless_unchanged(db, invoice, existing_invoice, c) ==
    LET \* last_edited_time.replace(tzinfo=None): the UTC reading, made naive
        notion_time == IF existing_invoice # 0 THEN db[existing_invoice].edited
                       ELSE NoTime
        \* stripe_updated_at.replace(tzinfo=None): already naive local time
        stripe_time == invoice.stripe_updated_at
    IN  IF is_unchanged(existing_invoice, notion_time, stripe_time)
        THEN [db |-> db, outcome |-> "unchanged", log |-> <<>>,
              found |-> existing_invoice]
        ELSE transferred(_sync_to_notion(db, invoice, c.o), existing_invoice)

\* The body of the loop for one record: [db, outcome, log, found], found being
\* the counterpart the staleness lookup returned (0 = None).
\* c.q = the staleness lookup succeeded within its retries; c.o = the outcomes
\* of the calls of the transfer.
sync_record(db, stripe_invoice, c) ==
    sync_unless_unchanged(
        db, to_invoice_model(stripe_invoice),
        query_invoice_by_stripe_id(db, stripe_invoice.id, c.q), c)

\* A loop that a failed record ends, as if no try/except enclosed the iteration.
AbortsAfterFailure(outcome) == outcome # "failed"

\* Counting that leaves the skipped records out.
CountTransfersOnly(st, outcome) ==
    IF outcome = "unchanged" THEN st ELSE [st EXCEPT ![outcome] = @ + 1]

\* stats[outcome] += 1
count(st, outcome) == [st EXCEPT ![outcome] = @ + 1]

\* Whether the loop goes on to the next record after one counted as outcome:
\* the inner try/except keeps a failure inside its iteration.
continues_after(outcome) == TRUE

\* What the properties keep of one iteration: the record, how it was counted,
\* the writes issued for it, and of the database as the iteration found it:
\* the first counterpart in scan order and the number of counterparts, whether
\* that counterpart was last modified strictly after the record was last
\* modified on the payments side, and whether the page the lookup returned
\* was last modified strictly after the instant of the conversion (both
\* instants on the UTC timeline).
Report(db, stripe_invoice, r) ==
    LET cp == Counterpart(db, stripe_invoice.id)
    IN  [id |-> stripe_invoice.id, outcome |-> r.outcome, log |-> r.log,
         found |-> r.found, existed |-> cp # 0,
         newer |-> cp # 0 /\ db[cp].edited > stripe[stripe_invoice.id].modified,
         first |-> cp,
         matches |-> Cardinality(Counterparts(db, stripe_invoice.id)),
         later |-> r.found # 0 /\ db[r.found].edited > now]

\* The state of the pass after one record with result r.
record_done(acc, stripe_invoice, r) ==
    [db |-> r.db,
     stats |-> count(acc.stats, r.outcome),
     reports |-> Append(acc.reports, Report(acc.db, stripe_invoice, r))]

\* The loop over the fetched records: [db, stats, reports].
RECURSIVE sync_records(_, _, _, _)
RECURSIVE next_record(_, _, _, _)
sync_records(acc, records, calls, i) ==
    IF i > Len(records) THEN acc
    ELSE next_record(record_done(acc, records[i],
                                 sync_record(acc.db, records[i], calls[i])),
                     records, calls, i)

\* The loop goes on to record i + 1 unless the last outcome ended it.
next_record(acc, records, calls, i) ==
    IF continues_after(acc.reports[Len(acc.reports)].outcome)
    THEN sync_records(acc, records, calls, i + 1)
    ELSE acc

\* The calls one iteration may make.
RecordCalls == [q : BOOLEAN, o : Outcomes]

\* SyncService.perform_background_sync on the fetched list recent_invoices_.
perform_background_sync(db, recent_invoices_, calls) ==
    sync_records([db |-> db,
                  stats |-> [NoStats EXCEPT !.total = Len(recent_invoices_)],
                  reports |-> <<>>],
                 recent_invoices_, calls, 1)

(***************************************************************************)
(* Initial state.                                                          *)
(***************************************************************************)
InitMain ==
    /\ now = 0
    /\ stripe = [id \in StripeIds |-> NoInvoice]
    /\ notion = <<>>
    /\ last = NoCall
    /\ seq = NoSeq

InitMergeIdleText ==
    /\ description = <<>>
    /\ descriptions = [id \in StripeIds |-> <<>>]
    /\ billing_period = [start |-> NoDate, end |-> NoDate]
    /\ history = <<>>

InitMergeIdle ==
    /\ InitMergeIdleText
    /\ tasks = NoTasks
    /\ running = NoRunning
    /\ NoServer

\* The event-driven engine: any template configuration.
Init ==
    /\ utcOffset = 0
    /\ templateId \in BOOLEAN
    /\ InitMain
    /\ InitMergeIdle

\* The batch pass: any UTC offset of the local clock, no template.
InitBatch ==
    /\ utcOffset \in (0 - MaxUtcOffset)..MaxUtcOffset
    /\ templateId = FALSE
    /\ InitMain
    /\ InitMergeIdle

(***************************************************************************)
(* The environment: the clock, Stripe users and Notion users.  The clock   *)
(* advances a day at a time.                                               *)
(***************************************************************************)
Tick ==
    /\ last = NoCall
    /\ now < MaxDays * TicksPerDay
    /\ now' = now + TicksPerDay
    /\ seq' = NoSeq
    /\ UNCHANGED <<utcOffset, templateId, stripe, notion, last, mergeVars, loopVars>>

StripeCreate(id) ==
    /\ last = NoCall
    /\ ~stripe[id].exists
    /\ stripe' = [stripe EXCEPT ![id] =
                     [exists |-> TRUE, created |-> now, modified |-> now]]
    /\ seq' = NoSeq
    /\ UNCHANGED <<now, utcOffset, templateId, notion, last, mergeVars, loopVars>>

StripeModify(id) ==
    /\ last = NoCall
    /\ stripe[id].exists
    /\ stripe[id].modified # now
    /\ stripe' = [stripe EXCEPT ![id].modified = now]
    /\ seq' = NoSeq
    /\ UNCHANGED <<now, utcOffset, templateId, notion, last, mergeVars, loopVars>>

NotionUserEdit(p) ==
    /\ last = NoCall
    /\ p \in 1..Len(notion)
    /\ ~notion[p].archived
    /\ notion[p].edited # now
    /\ notion' = [notion EXCEPT ![p].edited = now]
    /\ seq' = NoSeq
    /\ UNCHANGED <<now, utcOffset, templateId, stripe, last, mergeVars, loopVars>>

(***************************************************************************)
(* The engine.                                                             *)
(***************************************************************************)
\* The invoices a webhook event can carry (StripeService.process_invoice_event):
\* a parsed Stripe invoice, or the minimal Invoice of an "invoice.deleted" event.
EventInvoices ==
    {to_invoice_model([id |-> id, status |-> st]) :
        id \in StripeIds, st \in SampleStatuses}
    \cup {[id |-> id, invoice_number |-> "", status |-> DELETED,
           stripe_updated_at |-> datetime_now,
           billing_period_start |-> NoDate, billing_period_end |-> NoDate] :
             id \in StripeIds}

\* seq after a transfer of invoice that found the database db: counts
\* consecutive successful transfers of one identifier, the first of which
\* found no counterpart in the collection.
NextSeq(db, invoice, ok) ==
    IF invoice.status = DELETED \/ ~ok THEN NoSeq
    ELSE IF seq.id = invoice.id /\ seq.n = 1 THEN [id |-> invoice.id, n |-> 2]
    ELSE IF Counterparts(db, invoice.id) = {} THEN [id |-> invoice.id, n |-> 1]
    ELSE NoSeq

\* The caller drops the result of the call it made.
Forget ==
    /\ last # NoCall
    /\ last' = NoCall
    /\ UNCHANGED <<now, utcOffset, templateId, stripe, notion, seq, mergeVars, loopVars>>

\* SyncService.handle_stripe_event.
handle_stripe_event(invoice) ==
    /\ last = NoCall
    /\ \E r \in {_sync_to_notion(notion, invoice, o) : o \in Outcomes} :
           /\ Len(r.db) <= MaxPages
           /\ notion' = r.db
           /\ last' = [NoCall EXCEPT !.op = "handle_stripe_event",
                           !.id = invoice.id, !.status = invoice.status,
                           !.ok = r.ok, !.notion_id = r.id, !.log = r.log,
                           !.existed = Counterparts(notion, invoice.id) # {}]
           /\ seq' = NextSeq(notion, invoice, r.ok)
    /\ UNCHANGED <<now, utcOffset, templateId, stripe, mergeVars, loopVars>>

\* SyncService.perform_background_sync(days_back).
BackgroundSync(days_back) ==
    /\ last = NoCall
    /\ \E ok \in BOOLEAN :
         \E fetched \in get_recent_invoices(days_back, ok) :
           \E r \in {perform_background_sync(notion, fetched, calls) :
                        calls \in [1..Len(fetched) -> RecordCalls]} :
             /\ Len(r.db) <= MaxPages
             /\ notion' = r.db
             /\ last' = [NoCall EXCEPT !.op = "perform_background_sync",
                             !.ok = ok, !.days_back = days_back,
                             !.fetched = fetched, !.stats = r.stats,
                             !.reports = r.reports]
    /\ seq' = NoSeq
    /\ UNCHANGED <<now, utcOffset, templateId, stripe, mergeVars, loopVars>>

Next ==
    \/ \E invoice \in EventInvoices : handle_stripe_event(invoice)
    \/ Forget

Spec == Init /\ [][Next]_vars

NextBatch ==
    \/ Tick
    \/ \E id \in StripeIds : StripeCreate(id)
    \/ \E id \in StripeIds : StripeModify(id)
    \/ \E p \in 1..MaxPages : NotionUserEdit(p)
    \/ \E days_back \in DaysBack : BackgroundSync(days_back)
    \/ Forget

SpecBatch == InitBatch /\ [][NextBatch]_vars

\* The event-driven engine in its environment: the events of one invoice
\* reach the engine while the clock advances and the users of both sides
\* modify their records.
InitEvents ==
    /\ utcOffset \in (0 - MaxUtcOffset)..MaxUtcOffset
    /\ templateId = FALSE
    /\ now = 0
    /\ stripe = [id \in StripeIds |->
                    [exists |-> id = "in_1", created |-> 0, modified |-> 0]]
    /\ notion = <<>>
    /\ last = NoCall
    /\ seq = NoSeq
    /\ InitMergeIdle

NextEvents ==
    \/ Tick
    \/ \E id \in StripeIds : StripeModify(id)
    \/ \E p \in 1..MaxPages : NotionUserEdit(p)
    \/ \E invoice \in EventInvoices :
          stripe[invoice.id].exists /\ handle_stripe_event(invoice)
    \/ Forget

SpecEvents == InitEvents /\ [][NextEvents]_vars

(***************************************************************************)
(* The billing-period merge on its own: the annotation of one invoice and  *)
(* the billing period of its Notion page; handle_notion_update merges the  *)
(* period into the annotation and writes it back                           *)
(* (StripeService.update_invoice_memo), any number of times.               *)
(***************************************************************************)
Memos == UNION {[1..n -> MemoTokens] : n \in 0..MaxMemoLen}

InitMerge ==
    /\ utcOffset = 0
    /\ templateId = FALSE
    /\ InitMain
    /\ description \in Memos
    /\ billing_period \in [start : DateTimes, end : DateTimes \cup {NoDate}]
    /\ history = <<description>>
    /\ tasks = NoTasks
    /\ running = NoRunning
    /\ NoServer
    /\ descriptions = [id \in StripeIds |-> <<>>]

\* handle_notion_update for a page with a billing period: memo = stripe_invoice.memo
\* or "", the merge, then stripe.Invoice.modify(description=memo).
MergeIntoMemo ==
    /\ Len(history) <= MaxMerges
    /\ description' = MergeBillingPeriod(description, billing_period.start,
                                         billing_period.end)
    /\ history' = Append(history, description')
    /\ UNCHANGED <<billing_period, descriptions, mainVars, loopVars>>

NextMerge == MergeIntoMemo

SpecMerge == InitMerge /\ [][NextMerge]_vars

(***************************************************************************)
(* The retry wrapper and the exception handlers.  A request is attempted   *)
(* until the platform answers without an error; every exception is retried;*)
(* after the last attempt tenacity raises RetryError (the decorator is     *)
(* used without reraise).  A result carries `raised` when the call ends by *)
(* an exception instead of a value.                                        *)
(***************************************************************************)
stop_after_attempt == 3

\* What the attempts of one request meet: TRUE = the platform answers the
\* request, FALSE = a transient failure (rate limit, timeout, connection).
\* The failures come first: a result depends on the first answer only, or on
\* the last attempt when no answer is a value.
Attempts ==
    {a \in [1..stop_after_attempt -> BOOLEAN] :
        \A i, j \in 1..stop_after_attempt : (i < j /\ a[i]) => a[j]}

\* The platform's answer to a request: a value, or an error response.
Answer(ok, value, error) == [ok |-> ok, value |-> value, error |-> error]

RECURSIVE retry(_, _, _)
retry(answer, attempts, attempt_number) ==
    IF attempts[attempt_number] /\ answer.ok
    THEN [raised |-> FALSE, value |-> answer.value,
          attempts |-> attempt_number, error |-> ""]
    ELSE IF attempt_number >= stop_after_attempt
    THEN [raised |-> TRUE, value |-> answer.value,
          attempts |-> attempt_number,
          error |-> IF attempts[attempt_number] THEN answer.error
                    ELSE "transient"]
    ELSE retry(answer, attempts, attempt_number + 1)

\* NotionService._make_api_request and StripeService._make_api_request
_make_api_request(answer, attempts) == retry(answer, attempts, 1)

\* One entry of the log of requests of a document -> payments transfer:
\* the call, the object it addresses, whether it succeeded, the attempts made.
Request(call, target, response) ==
    [call |-> call, target |-> target, ok |-> ~response.raised,
     attempts |-> response.attempts]

\* A handler that lets the exception through.
NoExcept(r, default) == r

\* try: ... except Exception: return default
except_Exception(r, default) ==
    IF r.raised THEN [r EXCEPT !.raised = FALSE, !.value = default] ELSE r

(***************************************************************************)
(* The document -> payments transfer.                                      *)
(***************************************************************************)
\* The prefix of the identifiers of the model (str.startswith).
Prefix(id) ==
    CASE id \in {"in_1", "in_2", "in_1?tab=details"} -> "in_"
      [] id = "cus_1" -> "cus_"
      [] OTHER -> ""

\* client.pages.retrieve(page_id): the page, or the error response of a page
\* that does not exist or is not shared with the integration.
pages_retrieve(db, page_id) ==
    IF page_id \in 1..Len(db) THEN Answer(TRUE, page_id, "")
    ELSE Answer(FALSE, 0, "object_not_found")

\* NotionService.query_invoice_by_notion_id: value = the page, or 0 for None.
\* What _make_api_request raises is a RetryError, so the handler of
\* APIResponseError with its object_not_found branch is passed over and the
\* handler of Exception returns None.
query_invoice_by_notion_id(db, notion_id, attempts) ==
    LET page == _make_api_request(pages_retrieve(db, notion_id), attempts)
    IN  except_Exception(
            [raised |-> page.raised, value |-> page.value,
             log |-> <<Request("pages.retrieve", notion_id, page)>>,
             condition |-> page.error], 0)

\* status_map.get(self.status or "", InvoiceStatus.DRAFT) of
\* NotionInvoice.to_invoice_model: a status name of the document side read
\* back as a status of the shared vocabulary.
invoice_status_map(status) ==
    CASE status = "Draft" -> DRAFT
      [] status = "Pending" -> OPEN
      [] status = "Paid" -> PAID
      [] status = "Void" -> VOID
      [] OTHER -> DRAFT

\* NotionService._page_to_notion_invoice
_page_to_notion_invoice(db, page) ==
    [notion_id |-> page,
     stripe_id |-> _extract_stripe_id_from_url(db[page].url),
     memo |-> <<>>,
     billing_period_start |-> db[page].billing_period.start,
     billing_period_end |-> db[page].billing_period.end,
     last_edited_time |-> db[page].edited]

\* stripe.Invoice.retrieve(invoice_id) and the existence check of
\* stripe.Invoice.modify(invoice_id, ...).
Invoice_retrieve(invoice_id) ==
    IF invoice_id \in StripeIds /\ stripe[invoice_id].exists
    THEN Answer(TRUE, invoice_id, "")
    ELSE Answer(FALSE, "", "InvalidRequestError")

\* A modify that does not keep to the invoice it is given.
ModifyEveryInvoice(memos, invoice_id, memo) == [id \in StripeIds |-> memo]

\* stripe.Invoice.modify(invoice_id, description=memo) on the annotations.
Invoice_modify(memos, invoice_id, memo) == [memos EXCEPT ![invoice_id] = memo]

NoStripeInvoice == [found |-> FALSE, id |-> "", memo |-> <<>>]

\* A fetch that returns an invoice whatever the request did.
GetInvoiceUnchecked(memos, invoice_id, attempts) ==
    LET response == _make_api_request(Invoice_retrieve(invoice_id), attempts)
    IN  [raised |-> FALSE,
         value |-> [found |-> TRUE, id |-> invoice_id, memo |-> <<>>],
         log |-> <<Request("Invoice.retrieve", invoice_id, response)>>]

\* StripeService.get_invoice: value = the Invoice with its memo, or
\* NoStripeInvoice for None.
get_invoice(memos, invoice_id, attempts) ==
    LET response == _make_api_request(Invoice_retrieve(invoice_id), attempts)
    IN  except_Exception(
            [raised |-> response.raised,
             value |-> IF response.raised THEN NoStripeInvoice
                       ELSE [found |-> TRUE, id |-> invoice_id,
                             memo |-> memos[invoice_id]],
             log |-> <<Request("Invoice.retrieve", invoice_id, response)>>],
            NoStripeInvoice)

\* StripeService.update_invoice_memo: value = the success flag.
update_invoice_memo(memos, invoice_id, memo, attempts) ==
    LET response == _make_api_request(Invoice_retrieve(invoice_id), attempts)
    IN  except_Exception(
            [raised |-> response.raised, value |-> TRUE,
             log |-> <<Request("Invoice.modify", invoice_id, response)>>,
             memos |-> IF response.raised THEN memos
                       ELSE Invoice_modify(memos, invoice_id, memo)],
            FALSE)

\* A transfer that updates the annotation whether or not there is a memo.
SyncToStripeAlwaysWrites(memos, invoice, attempts) ==
    update_invoice_memo(memos, invoice.id, invoice.memo, attempts)

\* SyncService._sync_to_stripe: value = the success flag.
_sync_to_stripe(memos, invoice, attempts) ==
    except_Exception(
        IF invoice.id = "" \/ Prefix(invoice.id) # "in_"
        THEN [raised |-> FALSE, value |-> FALSE, log |-> <<>>, memos |-> memos]
        ELSE IF invoice.memo # <<>>
        THEN update_invoice_memo(memos, invoice.id, invoice.memo, attempts)
        ELSE [raised |-> FALSE, value |-> TRUE, log |-> <<>>, memos |-> memos],
        FALSE)

\* The attempts of the three requests one transfer may make.
UpdateCalls == [retrieve : Attempts, fetch : Attempts, modify : Attempts]

\* The result of handle_notion_update before any request was made.
NoUpdate(memos) ==
    [raised |-> FALSE, value |-> FALSE, log |-> <<>>, memos |-> memos,
     stripe_id |-> "", lookup |-> 0, condition |-> ""]

\* A transfer that goes on to the update whatever the fetch returned and
\* whatever the identifier is.
HandleNotionUpdateUnguarded(db, memos, notion_invoice_id, c) ==
    LET q == query_invoice_by_notion_id(db, notion_invoice_id, c.retrieve)
    IN  IF q.value = 0
        THEN [NoUpdate(memos) EXCEPT !.log = q.log, !.condition = q.condition]
        ELSE LET notion_invoice == _page_to_notion_invoice(db, q.value)
                 stripe_id == IF notion_invoice.stripe_id = None THEN ""
                              ELSE notion_invoice.stripe_id
                 u == update_invoice_memo(memos, stripe_id,
                          MergeBillingPeriod(<<>>,
                              notion_invoice.billing_period_start,
                              notion_invoice.billing_period_end), c.modify)
             IN  [NoUpdate(memos) EXCEPT !.value = u.value,
                      !.log = q.log \o u.log, !.memos = u.memos,
                      !.stripe_id = stripe_id, !.lookup = q.value]

\* SyncService.handle_notion_update: value = the success flag, log = the
\* requests made, memos = the annotations after the call, lookup and
\* condition = what the lookup by page identifier returned and what the
\* platform had reported to it.  A call that ends by an exception inside the
\* try block ends the block with it.
handle_notion_update(db, memos, notion_invoice_id, c) ==
    LET q == query_invoice_by_notion_id(db, notion_invoice_id, c.retrieve)
        seen == [NoUpdate(memos) EXCEPT !.log = q.log, !.lookup = q.value,
                                        !.condition = q.condition]
    IN  except_Exception(
          IF q.raised THEN [seen EXCEPT !.raised = TRUE]
          ELSE IF q.value = 0 THEN seen
          ELSE
            LET notion_invoice == _page_to_notion_invoice(db, q.value)
            IN  IF notion_invoice.stripe_id = None \/ notion_invoice.stripe_id = ""
                THEN seen
                ELSE
                  LET s == get_invoice(memos, notion_invoice.stripe_id, c.fetch)
                      fetched == [seen EXCEPT !.log = q.log \o s.log,
                                      !.stripe_id = notion_invoice.stripe_id]
                  IN  IF s.raised THEN [fetched EXCEPT !.raised = TRUE]
                      ELSE IF ~s.value.found THEN fetched
                      ELSE
                        LET stripe_invoice == s.value
                            memo ==
                              IF notion_invoice.billing_period_start # NoDate
                              THEN MergeBillingPeriod(stripe_invoice.memo,
                                       notion_invoice.billing_period_start,
                                       notion_invoice.billing_period_end)
                              ELSE notion_invoice.memo
                            invoice == [id |-> notion_invoice.stripe_id,
                                        memo |-> memo]
                            result == _sync_to_stripe(memos, invoice, c.modify)
                        IN  [fetched EXCEPT !.raised = result.raised,
                                 !.value = result.value,
                                 !.log = fetched.log \o result.log,
                                 !.memos = result.memos],
          FALSE)

\* The billing periods a page may hold and the annotations an invoice may
\* carry.
NoPeriod == [start |-> NoDate, end |-> NoDate]

Periods ==
    {NoPeriod,
     [start |-> [date |-> "2024-01-01", time |-> "00:00"], end |-> NoDate],
     [start |-> [date |-> "2024-01-01", time |-> "00:00"],
      end |-> [date |-> "2024-01-31", time |-> "00:00"]]}

Annotations == {<<>>, <<"x">>, <<LABEL, SP, "x">>}

\* One page made by a user in the invoice database, and one or two invoices.
InitNotion ==
    /\ now = 0
    /\ utcOffset = 0
    /\ templateId = FALSE
    /\ last = NoCall
    /\ seq = NoSeq
    /\ \E second \in BOOLEAN :
          stripe = [id \in StripeIds |->
                       [exists |-> (id = "in_1" \/ second), created |-> 0,
                        modified |-> 0]]
    /\ descriptions \in [StripeIds -> Annotations]
    /\ \A id \in StripeIds : ~stripe[id].exists => descriptions[id] = <<>>
    /\ \E url \in Links, period \in Periods :
          notion = <<[url |-> url, status |-> "Draft", title |-> "", edited |-> 0,
                      archived |-> FALSE, billing_period |-> period]>>
    /\ description = <<>>
    /\ billing_period = NoPeriod
    /\ history = <<>>
    /\ tasks = NoTasks
    /\ running = NoRunning
    /\ NoServer

\* SyncService.handle_notion_update(notion_invoice_id), as the Notion webhook
\* calls it.
NotionUpdate(notion_invoice_id) ==
    /\ last = NoCall
    /\ \E r \in {handle_notion_update(notion, descriptions, notion_invoice_id, c) :
                    c \in UpdateCalls} :
           /\ descriptions' = r.memos
           /\ stripe' = [id \in StripeIds |->
                            IF \E i \in 1..Len(r.log) :
                                  /\ r.log[i].call = "Invoice.modify"
                                  /\ r.log[i].target = id
                                  /\ r.log[i].ok
                            THEN [stripe[id] EXCEPT !.modified = now]
                            ELSE stripe[id]]
           /\ last' = [NoCall EXCEPT !.op = "handle_notion_update",
                           !.notion_id = notion_invoice_id, !.id = r.stripe_id,
                           !.ok = r.value, !.log = r.log, !.raised = r.raised,
                           !.lookup = r.lookup, !.condition = r.condition]
    /\ seq' = NoSeq
    /\ UNCHANGED <<now, utcOffset, templateId, notion, description,
                   billing_period, history, loopVars>>

NextNotion ==
    \/ \E notion_invoice_id \in 1..MaxPages : NotionUpdate(notion_invoice_id)
    \/ Forget

SpecNotion == InitNotion /\ [][NextNotion]_vars

(***************************************************************************)
(* The three engine operations together, from a database that holds one    *)
(* page with a billing period, linked to the first of two invoices.        *)
(***************************************************************************)
InitEngine ==
    /\ now = 0
    /\ utcOffset = 0
    /\ templateId = FALSE
    /\ last = NoCall
    /\ seq = NoSeq
    /\ stripe = [id \in StripeIds |->
                    [exists |-> TRUE, created |-> 0, modified |-> 0]]
    /\ descriptions = [id \in StripeIds |-> <<"x">>]
    /\ notion = <<[url |-> StripeLink("in_1"), status |-> "Draft",
                   title |-> "", edited |-> 0, archived |-> FALSE,
                   billing_period |->
                       [start |-> [date |-> "2024-01-01", time |-> "00:00"],
                        end |-> NoDate]]>>
    /\ description = <<>>
    /\ billing_period = NoPeriod
    /\ history = <<>>
    /\ tasks = NoTasks
    /\ running = NoRunning
    /\ NoServer

NextEngine ==
    \/ \E notion_invoice_id \in 1..MaxPages : NotionUpdate(notion_invoice_id)
    \/ \E invoice \in EventInvoices : handle_stripe_event(invoice)
    \/ \E days_back \in DaysBack : BackgroundSync(days_back)
    \/ Forget

SpecEngine == InitEngine /\ [][NextEngine]_vars

(***************************************************************************)
(* The document-side webhook (app/api/webhooks.py, notion_webhook).        *)
(***************************************************************************)
\* The bodies the requests of the model carry: text that is not JSON, a JSON
\* array, and JSON objects without "page_id", with a "page_id" that is empty
\* or null (0), and with the identifier of a page.
Payloads ==
    {[kind |-> k, keys |-> {}, page_id |-> 0] : k \in {"not_json", "array", "object"}}
    \cup {[kind |-> "object", keys |-> {"page_id"}, page_id |-> p] :
             p \in 0..MaxPages}

\* A handler without its except clause.
WebhookReraises(r, response) == r

\* "except Exception as e: return {"success": False, "message": ...}"
webhook_except(r, response) ==
    IF r.raised THEN [r EXCEPT !.raised = FALSE, !.value = response] ELSE r

\* The body of the response.
WebhookResponse(success, message) == [success |-> success, message |-> message]

\* notion_webhook: [raised, value (the response), calls (of
\* handle_notion_update), update (what the call did)].
notion_webhook(db, memos, payload, c) ==
    LET notion_page_id ==
            IF "page_id" \in payload.keys THEN payload.page_id ELSE 0
        update == handle_notion_update(db, memos, notion_page_id, c)
        body ==
            IF payload.kind = "not_json"
            THEN [raised |-> TRUE, value |-> WebhookResponse(FALSE, ""),
                  calls |-> 0, update |-> NoUpdate(memos)]
            ELSE IF payload.kind # "object"
            THEN [raised |-> TRUE, value |-> WebhookResponse(FALSE, ""),
                  calls |-> 0, update |-> NoUpdate(memos)]
            ELSE IF notion_page_id = 0
            THEN [raised |-> FALSE,
                  value |-> WebhookResponse(FALSE, "Missing page_id in payload"),
                  calls |-> 0, update |-> NoUpdate(memos)]
            ELSE IF update.raised
            THEN [raised |-> TRUE, value |-> WebhookResponse(FALSE, ""),
                  calls |-> 1, update |-> update]
            ELSE IF update.value
            THEN [raised |-> FALSE,
                  value |-> WebhookResponse(TRUE,
                                "Successfully processed Notion update"),
                  calls |-> 1, update |-> update]
            ELSE [raised |-> FALSE,
                  value |-> WebhookResponse(FALSE, "Failed to process update"),
                  calls |-> 1, update |-> update]
    IN  webhook_except(body,
                       WebhookResponse(FALSE, "Error processing webhook"))

\* One request to POST /webhooks/notion.
NotionWebhook(payload) ==
    /\ last = NoCall
    /\ \E r \in {notion_webhook(notion, descriptions, payload, c) :
                    c \in UpdateCalls} :
           /\ descriptions' = r.update.memos
           /\ stripe' = [id \in StripeIds |->
                            IF \E i \in 1..Len(r.update.log) :
                                  /\ r.update.log[i].call = "Invoice.modify"
                                  /\ r.update.log[i].target = id
                                  /\ r.update.log[i].ok
                            THEN [stripe[id] EXCEPT !.modified = now]
                            ELSE stripe[id]]
           /\ last' = [NoCall EXCEPT !.op = "notion_webhook",
                           !.payload = payload, !.raised = r.raised,
                           !.http = IF r.raised THEN 500 ELSE 200,
                           !.success = r.value.success,
                           !.message = r.value.message, !.calls = r.calls,
                           !.id = r.update.stripe_id, !.ok = r.update.value,
                           !.log = r.update.log, !.lookup = r.update.lookup,
                           !.condition = r.update.condition]
    /\ seq' = NoSeq
    /\ UNCHANGED <<now, utcOffset, templateId, notion, description,
                   billing_period, history, loopVars>>

NextNotionWebhook ==
    \/ \E payload \in Payloads : NotionWebhook(payload)
    \/ Forget

SpecNotionWebhook == InitNotion /\ [][NextNotionWebhook]_vars

(***************************************************************************)
(* The payments webhook (app/api/webhooks.py, stripe_webhook).  An event   *)
(* type is the sequence of the segments between its dots.                  *)
(***************************************************************************)
\* The types process_invoice_event converts to an invoice.
AllowedTypes ==
    {<<"invoice", "created">>, <<"invoice", "updated">>,
     <<"invoice", "finalized">>, <<"invoice", "paid">>,
     <<"invoice", "payment_failed">>, <<"invoice", "payment_succeeded">>}

\* The event types the requests of the model carry.
EventTypes ==
    {<<"invoice", "created">>, <<"invoice", "paid">>, <<"invoice", "deleted">>,
     <<"invoice", "voided">>, <<"invoice", "marked_uncollectible">>,
     <<"invoiceitem", "created">>, <<"customer", "created">>}

\* The Stripe-Signature header: absent, not a signature of the payload under
\* the webhook secret, or one.
Signatures == {None, "forged", "signed"}

\* event["data"]["object"]: an invoice with its status, or an object without
\* an "id".
EventObjects ==
    {[id |-> "in_1", status |-> st] : st \in StripeStatuses}
    \cup {[id |-> None, status |-> "open"]}

Requests == [signature : Signatures, type : EventTypes, object : EventObjects]

\* stripe.Webhook.construct_event verifies the header against the payload and
\* the secret, and raises SignatureVerificationError when it does not match.
construct_event(request) ==
    IF request.signature = "signed"
    THEN Answer(TRUE, [type |-> request.type, object |-> request.object], "")
    ELSE Answer(FALSE, None, "SignatureVerificationError")

\* An event parsed without a look at the signature.
ParseWithoutVerifying(request) ==
    [none |-> FALSE, type |-> request.type, object |-> request.object]

\* StripeService.parse_webhook_event: the event, or None (none = TRUE).
parse_webhook_event(request) ==
    LET event == construct_event(request)
    IN  IF event.ok
        THEN [none |-> FALSE, type |-> event.value.type,
              object |-> event.value.object]
        ELSE [none |-> TRUE, type |-> <<>>, object |-> NoRequest.object]

\* event["type"].startswith("invoice.")
startswith_invoice(type) == Len(type) >= 2 /\ type[1] = "invoice"

\* StripeService.process_invoice_event: [raised, none, invoice].  The deletion
\* branch reads invoice_data["id"] outside any try; StripeInvoice.parse_obj of
\* an object without "id" raises inside the try of the other branch.
process_invoice_event(event) ==
    IF event.type = <<"invoice", "deleted">>
    THEN IF event.object.id = None
         THEN [raised |-> TRUE, none |-> FALSE]
         ELSE [raised |-> FALSE, none |-> FALSE,
               invoice |-> [id |-> event.object.id, invoice_number |-> "",
                            status |-> DELETED,
                            stripe_updated_at |-> datetime_now,
                            billing_period_start |-> NoDate,
                            billing_period_end |-> NoDate]]
    ELSE IF event.type \notin AllowedTypes
    THEN [raised |-> FALSE, none |-> TRUE]
    ELSE IF event.object.id = None
    THEN [raised |-> FALSE, none |-> TRUE]
    ELSE [raised |-> FALSE, none |-> FALSE,
          invoice |-> to_invoice_model(event.object)]

\* No transfer was called.
NoTransfer(db) == [db |-> db, ok |-> FALSE, id |-> 0, log |-> <<>>]

\* The answer of the endpoint: the HTTP status, the "success" of the body, the
\* number of calls of handle_stripe_event with the invoice they got, and what
\* the call did.
Response(http, success, calls, invoice, transfer) ==
    [http |-> http, success |-> success, calls |-> calls, invoice |-> invoice,
     transfer |-> transfer]

\* stripe_webhook.  sync_service.handle_stripe_event(invoice) returns the flag
\* of _sync_to_notion(invoice).
stripe_webhook(db, request, o) ==
    LET event == parse_webhook_event(request)
        processed == process_invoice_event(event)
        transfer == _sync_to_notion(db, processed.invoice, o)
        none == [id |-> "", status |-> ""]
    IN  IF request.signature \in {None, ""}
        THEN Response(400, FALSE, 0, none, NoTransfer(db))
        ELSE IF event.none
        THEN Response(400, FALSE, 0, none, NoTransfer(db))
        ELSE IF startswith_invoice(event.type)
        THEN IF processed.raised
             THEN Response(500, FALSE, 0, none, NoTransfer(db))
             ELSE IF processed.none
             THEN Response(200, FALSE, 0, none, NoTransfer(db))
             ELSE Response(200, transfer.ok, 1,
                           [id |-> processed.invoice.id,
                            status |-> processed.invoice.status], transfer)
        ELSE Response(200, TRUE, 0, none, NoTransfer(db))

\* One request to POST /webhooks/stripe.
StripeWebhook(request) ==
    /\ last = NoCall
    /\ \E r \in {stripe_webhook(notion, request, o) : o \in Outcomes} :
           /\ Len(r.transfer.db) <= MaxPages
           /\ notion' = r.transfer.db
           /\ last' = [NoCall EXCEPT !.op = "stripe_webhook",
                           !.request = request, !.http = r.http,
                           !.success = r.success, !.calls = r.calls,
                           !.id = r.invoice.id, !.status = r.invoice.status,
                           !.ok = r.transfer.ok, !.notion_id = r.transfer.id,
                           !.log = r.transfer.log]
    /\ seq' = NoSeq
    /\ UNCHANGED <<now, utcOffset, templateId, stripe, mergeVars, loopVars>>

NextWebhook ==
    \/ \E request \in Requests : StripeWebhook(request)
    \/ Forget

SpecWebhook == Init /\ [][NextWebhook]_vars

(***************************************************************************)
(* The engine step by step under its drivers.  A transfer is a lookup      *)
(* request followed by a write request; here every request succeeds, so    *)
(* that what is left is the order of the requests of different coroutines. *)
(* A coroutine runs when the thread of its loop is free or its own, and    *)
(* gives the thread up only where its code awaits.                         *)
(***************************************************************************)
\* The outcomes of a transfer all of whose requests succeed.
AllSucceed ==
    [query |-> TRUE, write |-> TRUE, list |-> TRUE, blocks |-> FALSE,
     append |-> TRUE, fallback |-> TRUE]

\* The invoices the events of this model carry: one identifier.
RaceInvoices ==
    {to_invoice_model([id |-> "in_1", status |-> st]) : st \in SampleStatuses}

\* A coroutine that gives the thread up wherever it calls the engine.
ReleasesAtEveryCall(pc) == TRUE

\* The positions at which a coroutine has given up the thread of its loop:
\* before it exists and after it returned, at "await request.body()" and at
\* "await asyncio.sleep(...)".  The engine calls between them have no await.
releases(pc) == pc \in {"off", "idle", "body", "sleep"}

\* The coroutine may take a step.
Runs(t) == running[tasks[t].loop] \in {"none", t}

\* The thread of the loop of t once t stands at pc.
Hold(t, pc) ==
    [running EXCEPT ![tasks[t].loop] = IF releases(pc) THEN "none" ELSE t]

\* The coroutine is inside an engine operation.
InCall(t) == tasks[t].pc \in {"staleness", "lookup", "write", "notion_to_stripe"}

\* A request reaches POST /webhooks/stripe: the handler coroutine is created
\* and waits for the body.
RequestArrives(t, invoice) ==
    /\ t \in Handlers
    /\ tasks[t].pc = "idle"
    /\ tasks' = [tasks EXCEPT ![t].pc = "body", ![t].invoice = invoice,
                              ![t].found = 0]
    /\ UNCHANGED <<running, mainVars, mergeVars, serverVars, clientVars>>

\* stripe_webhook after "await request.body()": the event is parsed and
\* handle_stripe_event is called.
HandlerResumes(t) ==
    /\ t \in Handlers
    /\ tasks[t].pc = "body"
    /\ Runs(t)
    /\ tasks' = [tasks EXCEPT ![t].pc = "lookup"]
    /\ running' = Hold(t, "lookup")
    /\ UNCHANGED <<mainVars, mergeVars, serverVars, clientVars>>

\* create_or_update_invoice: the lookup of the counterpart.
TransferLookup(t) ==
    /\ tasks[t].pc = "lookup"
    /\ Runs(t)
    /\ tasks' = [tasks EXCEPT
                    ![t].pc = "write",
                    ![t].found = query_invoice_by_stripe_id(
                                     notion, tasks[t].invoice.id, TRUE)]
    /\ running' = Hold(t, "write")
    /\ UNCHANGED <<mainVars, mergeVars, serverVars, clientVars>>

\* Where the coroutine stands after the write of a transfer: a handler
\* returns; the batch pass goes to its next record and, after the last, to
\* the document -> payments pass of the same iteration.
AfterWrite(t) ==
    IF t \in Handlers THEN "idle"
    ELSE IF Len(tasks[t].todo) > 1 THEN "staleness"
    ELSE "notion_to_stripe"

\* create_or_update_invoice: the update or the creation, by what the lookup
\* returned.
TransferWrite(t) ==
    /\ tasks[t].pc = "write"
    /\ Runs(t)
    /\ LET r == write_counterpart(notion, tasks[t].invoice, tasks[t].found,
                                  AllSucceed)
       IN  /\ Len(r.db) <= MaxPages
           /\ notion' = r.db
    /\ tasks' = [tasks EXCEPT ![t].pc = AfterWrite(t),
                              ![t].todo = IF @ = <<>> THEN @ ELSE Tail(@)]
    /\ running' = Hold(t, AfterWrite(t))
    /\ UNCHANGED <<now, utcOffset, templateId, stripe, last, seq, mergeVars,
                   serverVars, clientVars>>

\* start_background_tasks, and _run_periodic_sync after its sleep:
\* perform_background_sync() fetches the recent invoices.
PeriodicWakes(days_back) ==
    /\ tasks["periodic"].pc \in {"startup", "sleep"}
    /\ Runs("periodic")
    /\ \E recent_invoices \in get_recent_invoices(days_back, TRUE) :
          LET pc == IF recent_invoices = <<>> THEN "notion_to_stripe"
                    ELSE "staleness"
          IN  /\ tasks' = [tasks EXCEPT !["periodic"].pc = pc,
                                        !["periodic"].todo = recent_invoices]
              /\ running' = Hold("periodic", pc)
    /\ UNCHANGED <<mainVars, mergeVars, serverVars, clientVars>>

\* perform_background_sync: the staleness lookup and test of one record.
PeriodicStaleness ==
    /\ tasks["periodic"].pc = "staleness"
    /\ Runs("periodic")
    /\ LET invoice == to_invoice_model(Head(tasks["periodic"].todo))
           existing_invoice ==
               query_invoice_by_stripe_id(notion, invoice.id, TRUE)
           notion_time == IF existing_invoice # 0
                          THEN notion[existing_invoice].edited ELSE NoTime
           pc == IF ~is_unchanged(existing_invoice, notion_time,
                                  invoice.stripe_updated_at)
                 THEN "lookup"
                 ELSE IF Len(tasks["periodic"].todo) > 1 THEN "staleness"
                 ELSE "notion_to_stripe"
       IN  /\ tasks' = [tasks EXCEPT
                           !["periodic"].pc = pc,
                           !["periodic"].invoice = invoice,
                           !["periodic"].todo =
                               IF pc = "lookup" THEN @ ELSE Tail(@)]
           /\ running' = Hold("periodic", pc)
    /\ UNCHANGED <<mainVars, mergeVars, serverVars, clientVars>>

\* The document -> payments pass that ends the iteration, then
\* "await asyncio.sleep(sync_interval)".  The pages the engine wrote hold no
\* billing period, so handle_notion_update is called for none of them.
PeriodicSleeps ==
    /\ tasks["periodic"].pc = "notion_to_stripe"
    /\ Runs("periodic")
    /\ \A p \in 1..Len(notion) : notion[p].billing_period.start = NoDate
    /\ tasks' = [tasks EXCEPT !["periodic"].pc = "sleep",
                              !["periodic"].todo = <<>>]
    /\ running' = Hold("periodic", "sleep")
    /\ UNCHANGED <<mainVars, mergeVars, serverVars, clientVars>>

\* One server process as main.py starts it: the startup sync holds the loop,
\* the handlers of two requests are coroutines of the same loop.
InitLoop ==
    /\ now = 0
    /\ utcOffset = 0
    /\ templateId = FALSE
    /\ stripe = [id \in StripeIds |->
                    [exists |-> id = "in_1", created |-> 0, modified |-> 0]]
    /\ notion = <<>>
    /\ last = NoCall
    /\ seq = NoSeq
    /\ InitMergeIdleText
    /\ tasks = [t \in Tasks |->
                   [NoTask EXCEPT !.pc = IF t = "periodic" THEN "startup"
                                         ELSE "idle"]]
    /\ running = [NoRunning EXCEPT !["server"] = "periodic"]
    /\ NoServer

NextLoop ==
    \/ \E t \in Handlers, invoice \in RaceInvoices : RequestArrives(t, invoice)
    \/ \E t \in Handlers : HandlerResumes(t)
    \/ \E t \in Tasks : TransferLookup(t)
    \/ \E t \in Tasks : TransferWrite(t)
    \/ \E days_back \in DaysBack : PeriodicWakes(days_back)
    \/ PeriodicStaleness
    \/ PeriodicSleeps

SpecLoop == InitLoop /\ [][NextLoop]_vars

\* Two server processes (workers or replicas) without their periodic tasks:
\* the handlers of two requests run on different loops.
InitRace ==
    /\ now = 0
    /\ utcOffset = 0
    /\ templateId = FALSE
    /\ stripe = [id \in StripeIds |->
                    [exists |-> id = "in_1", created |-> 0, modified |-> 0]]
    /\ notion = <<>>
    /\ last = NoCall
    /\ seq = NoSeq
    /\ InitMergeIdleText
    /\ tasks = [t \in Tasks |->
                   IF t = "periodic" THEN NoTask
                   ELSE [NoTask EXCEPT !.pc = "idle",
                                       !.loop = IF t = "webhook" THEN "server"
                                                ELSE "server2"]]
    /\ running = NoRunning
    /\ NoServer

NextRace ==
    \/ \E t \in Handlers, invoice \in RaceInvoices : RequestArrives(t, invoice)
    \/ \E t \in Handlers : HandlerResumes(t)
    \/ \E t \in Handlers : TransferLookup(t)
    \/ \E t \in Handlers : TransferWrite(t)

SpecRace == InitRace /\ [][NextRace]_vars

(***************************************************************************)
(* The server process of main.py and its periodic task, one attempt of one *)
(* request at a time: the startup sync, then _run_periodic_sync, whose     *)
(* body is perform_background_sync followed by the document -> payments    *)
(* pass; the shutdown signal and cleanup_background_tasks.  An attempt of  *)
(* a request succeeds or fails; requests are retried as tenacity retries   *)
(* them.                                                                   *)
(***************************************************************************)
\* Config.SYNC_INTERVAL_SECONDS: the periodic sync switched off, or on.
SyncIntervals == {0, 3600}

\* The positions of the body at which a request is attempted: the list of
\* recent invoices, the staleness lookup, the lookup and the write of
\* create_or_update_invoice, the query of get_recently_updated_invoices.
Calls == {"fetch", "staleness", "lookup", "write", "recent"}

\* stop=stop_after_attempt(3): no attempt follows this one.
stop(attempt) == attempt >= stop_after_attempt

\* An attempt counter that starts again before it reaches the limit.
AttemptCounterResets(attempt) ==
    IF attempt + 1 >= stop_after_attempt THEN 1 ELSE attempt + 1

\* tenacity counts the attempts of one call.
next_attempt(attempt) == attempt + 1

\* A loop whose body lets the exception through: the task ends with it.
LoopEndsOnException(pc) == "ended"

\* "except Exception" around the body of the while loop: the error is logged
\* and the loop goes on to "await asyncio.sleep(sync_interval)".
loop_except(pc) == "sleep"

\* A shutdown handler that leaves the task alone.
CancelForgotten(task) == task

\* Task.cancel(): a task that is not done is marked; CancelledError is thrown
\* into it where it awaits.
cancel(task) ==
    IF task.pc \in {"cancelled", "ended"} THEN task
    ELSE [task EXCEPT !.must_cancel = TRUE]

\* The body begins: perform_background_sync() is called.
body_begins(task) ==
    [task EXCEPT !.pc = "fetch", !.attempt = 1, !.found = 0, !.todo = <<>>,
                 !.failed = FALSE, !.passes = <<"stripe_to_notion">>,
                 !.stats = NoStats, !.iteration = 1 - @]

\* The body ends.  The startup handler then creates the task if the interval
\* is positive; the task goes to sleep.
body_ends(task) ==
    [task EXCEPT !.pc = IF lifespan.phase = "startup" /\ lifespan.sync_interval <= 0
                        THEN "off" ELSE "sleep",
                 !.attempt = 1, !.found = 0, !.todo = <<>>]

\* perform_background_sync returned its stats: the document -> payments pass
\* follows.
pass_returns(task) ==
    [task EXCEPT !.pc = "recent", !.attempt = 1, !.found = 0, !.todo = <<>>,
                 !.passes = Append(@, "notion_to_stripe")]

\* The loop over the fetched records goes on after a record with the outcome.
record_ends(task, outcome) ==
    IF Len(task.todo) > 1
    THEN [task EXCEPT !.pc = "staleness", !.attempt = 1, !.found = 0,
                      !.todo = Tail(@), !.stats = count(@, outcome),
                      !.failed = @ \/ outcome = "failed"]
    ELSE [pass_returns(task) EXCEPT !.stats = count(@, outcome),
                                    !.failed = @ \/ outcome = "failed"]

\* The server after the body: the startup handler has returned.
served(ls) ==
    IF ls.phase = "startup" THEN [ls EXCEPT !.phase = "serving"] ELSE ls

\* An attempt of the request at the position of the task fails.  A call whose
\* attempts are used up ends as its except clause ends it: no invoices
\* fetched, no counterpart found, a failed record, no recent pages.
AttemptFails ==
    /\ background_task.pc \in Calls
    /\ LET task == background_task
       IN  IF ~stop(task.attempt)
           THEN /\ background_task' =
                       [task EXCEPT !.attempt = next_attempt(task.attempt)]
                /\ lifespan' = lifespan
           ELSE CASE task.pc = "fetch" ->
                       /\ background_task' =
                              [pass_returns(task) EXCEPT !.failed = TRUE]
                       /\ lifespan' = lifespan
                  [] task.pc = "staleness" ->
                       /\ background_task' =
                              [task EXCEPT !.pc = "lookup", !.attempt = 1,
                                           !.found = 0]
                       /\ lifespan' = lifespan
                  [] task.pc = "lookup" ->
                       /\ background_task' =
                              [task EXCEPT !.pc = "write", !.attempt = 1,
                                           !.found = 0]
                       /\ lifespan' = lifespan
                  [] task.pc = "write" ->
                       /\ background_task' = record_ends(task, "failed")
                       /\ lifespan' = lifespan
                  [] task.pc = "recent" ->
                       /\ background_task' =
                              [body_ends(task) EXCEPT !.failed = TRUE]
                       /\ lifespan' = served(lifespan)
    /\ UNCHANGED <<mainVars, mergeVars, tasks, running, clientVars>>

\* StripeService.get_recent_invoices succeeds.
FetchSucceeds(days_back) ==
    /\ background_task.pc = "fetch"
    /\ \E recent_invoices \in get_recent_invoices(days_back, TRUE) :
          background_task' =
              IF recent_invoices = <<>> THEN pass_returns(background_task)
              ELSE [background_task EXCEPT
                       !.pc = "staleness", !.attempt = 1,
                       !.todo = recent_invoices,
                       !.stats = [@ EXCEPT !.total = Len(recent_invoices)]]
    /\ UNCHANGED <<mainVars, mergeVars, tasks, running, clientVars, lifespan>>

\* The staleness lookup of the record succeeds: the record is skipped as
\* unchanged, or its transfer begins.
StalenessSucceeds ==
    /\ background_task.pc = "staleness"
    /\ LET invoice == to_invoice_model(Head(background_task.todo))
           existing_invoice ==
               query_invoice_by_stripe_id(notion, invoice.id, TRUE)
           notion_time == IF existing_invoice # 0
                          THEN notion[existing_invoice].edited ELSE NoTime
       IN  background_task' =
               IF is_unchanged(existing_invoice, notion_time,
                               invoice.stripe_updated_at)
               THEN record_ends(background_task, "unchanged")
               ELSE [background_task EXCEPT !.pc = "lookup", !.attempt = 1,
                                            !.found = 0]
    /\ UNCHANGED <<mainVars, mergeVars, tasks, running, clientVars, lifespan>>

\* The lookup of create_or_update_invoice succeeds.
LookupSucceeds ==
    /\ background_task.pc = "lookup"
    /\ background_task' =
           [background_task EXCEPT
               !.pc = "write", !.attempt = 1,
               !.found = query_invoice_by_stripe_id(
                             notion, Head(background_task.todo).id, TRUE)]
    /\ UNCHANGED <<mainVars, mergeVars, tasks, running, clientVars, lifespan>>

\* The update or the creation succeeds.  (A database that holds MaxPages
\* pages accepts no further page: the creation fails.)
WriteSucceeds ==
    /\ background_task.pc = "write"
    /\ LET r == write_counterpart(
                    notion, to_invoice_model(Head(background_task.todo)),
                    background_task.found, AllSucceed)
       IN  /\ Len(r.db) <= MaxPages
           /\ notion' = r.db
    /\ background_task' = record_ends(background_task, "synced")
    /\ UNCHANGED <<now, utcOffset, templateId, stripe, last, seq, mergeVars,
                   tasks, running, clientVars, lifespan>>

\* The query of get_recently_updated_invoices succeeds.  The pages the engine
\* wrote hold no billing period: handle_notion_update is called for none.
RecentSucceeds ==
    /\ background_task.pc = "recent"
    /\ \A p \in 1..Len(notion) : notion[p].billing_period.start = NoDate
    /\ background_task' = body_ends(background_task)
    /\ lifespan' = served(lifespan)
    /\ UNCHANGED <<mainVars, mergeVars, tasks, running, clientVars>>

\* "await asyncio.sleep(...)" returns: the next iteration begins with
\* SyncService(), which raises or not.
SleepReturns(constructed) ==
    /\ background_task.pc = "sleep"
    /\ ~background_task.must_cancel
    /\ background_task' =
           IF constructed THEN body_begins(background_task)
           ELSE [background_task EXCEPT
                    !.pc = loop_except(background_task.pc),
                    !.failed = TRUE, !.passes = <<>>, !.iteration = 1 - @]
    /\ UNCHANGED <<mainVars, mergeVars, tasks, running, clientVars, lifespan>>

\* The task is resumed after cancel(): CancelledError is raised at the await,
\* outside the try of the loop, and ends the task.
CancelledErrorRaised ==
    /\ background_task.pc = "sleep"
    /\ background_task.must_cancel
    /\ background_task' = [background_task EXCEPT !.pc = "cancelled",
                                                  !.must_cancel = FALSE]
    /\ UNCHANGED <<mainVars, mergeVars, tasks, running, clientVars, lifespan>>

\* The process is told to stop (SIGINT, SIGTERM): the server notes it,
\* whatever the loop is running.
ShutdownSignal ==
    /\ lifespan.phase = "serving"
    /\ lifespan' = [lifespan EXCEPT !.phase = "signalled",
                                    !.during = background_task.pc,
                                    !.pages = Len(notion)]
    /\ UNCHANGED <<mainVars, mergeVars, tasks, running, clientVars, background_task>>

\* cleanup_background_tasks: the shutdown handler, a coroutine of the loop of
\* the task; it runs when the task has given up the thread.
cleanup_background_tasks ==
    /\ lifespan.phase = "signalled"
    /\ background_task.pc \notin Calls
    /\ background_task' = IF background_task.pc # "off"
                          THEN cancel(background_task)
                          ELSE background_task
    /\ lifespan' = [lifespan EXCEPT !.phase = "stopped"]
    /\ UNCHANGED <<mainVars, mergeVars, tasks, running, clientVars>>

\* The server starts: the startup handler has called perform_background_sync.
InitPeriodic ==
    /\ now = 0
    /\ utcOffset = 0
    /\ templateId = FALSE
    /\ \E second \in BOOLEAN :
          stripe = [id \in StripeIds |->
                       [exists |-> (id = "in_1" \/ second), created |-> 0,
                        modified |-> 0]]
    /\ notion = <<>>
    /\ last = NoCall
    /\ seq = NoSeq
    /\ InitMergeIdleText
    /\ tasks = NoTasks
    /\ running = NoRunning
    /\ retrieve = NoRetrieve
    /\ background_task = body_begins(NoBackgroundTask)
    /\ \E sync_interval \in SyncIntervals :
          lifespan = [NoLifespan EXCEPT !.phase = "startup",
                                        !.sync_interval = sync_interval]

\* The steps of the task and of the startup handler before it.
TaskStep ==
    \/ AttemptFails
    \/ \E days_back \in DaysBack : FetchSucceeds(days_back)
    \/ StalenessSucceeds
    \/ LookupSucceeds
    \/ WriteSucceeds
    \/ RecentSucceeds
    \/ \E constructed \in BOOLEAN : SleepReturns(constructed)
    \/ CancelledErrorRaised

NextPeriodic ==
    \/ TaskStep
    \/ ShutdownSignal
    \/ cleanup_background_tasks

SpecPeriodic == InitPeriodic /\ [][NextPeriodic]_vars

\* The loop runs its coroutines: a task that can take a step takes one, and
\* the shutdown handler runs once the server was told to stop.
FairPeriodic ==
    /\ SpecPeriodic
    /\ WF_vars(TaskStep)
    /\ WF_vars(cleanup_background_tasks)

(***************************************************************************)
(* Page identifiers as text, and _format_notion_id on them.  An identifier *)
(* is a sequence of characters; the samples are runs of hexadecimal digits *)
(* with "-" between two runs, the k-th digit of an identifier being the    *)
(* k-th of 0..f repeated, so that a digit out of place shows.              *)
(***************************************************************************)
MaxRuns == 3

HexDigits ==
    <<"0", "1", "2", "3", "4", "5", "6", "7",
      "8", "9", "a", "b", "c", "d", "e", "f">>

\* The lengths of the runs of the samples.
RunLengths == {0, 4, 8, 12, 16, 20}

\* The identifier made of runs of digits of the given lengths, after done
\* digits.
RECURSIVE Hyphenated(_, _)
Hyphenated(runs, done) ==
    IF runs = <<>> THEN <<>>
    ELSE [i \in 1..Head(runs) |-> HexDigits[((done + i - 1) % 16) + 1]]
             \o (IF Len(runs) > 1 THEN <<"-">> ELSE <<>>)
             \o Hyphenated(Tail(runs), done + Head(runs))

\* The identifiers a caller may give: 32 digits with and without hyphens, in
\* the places of a UUID and elsewhere, and texts of other lengths.
NotionIds ==
    {Hyphenated(runs, 0) :
        runs \in {<<>>, <<32>>, <<31>>, <<33>>, <<8, 4, 4, 4, 12>>,
                  <<8, 4, 4, 4, 11>>, <<8, 4, 4, 4, 13>>}
                 \cup UNION {[1..n -> RunLengths] : n \in 1..MaxRuns}}

\* notion_id.replace("-", "")
without_hyphens(notion_id) == SelectSeq(notion_id, LAMBDA ch : ch # "-")

\* _format_notion_id: the hyphens are removed; 32 characters are returned as
\* 8-4-4-4-12, anything else is returned without its hyphens.
_format_notion_id(notion_id) ==
    LET id == without_hyphens(notion_id)
    IN  IF Len(id) = 32
        THEN SubSeq(id, 1, 8) \o <<"-">> \o SubSeq(id, 9, 12) \o <<"-">>
                 \o SubSeq(id, 13, 16) \o <<"-">> \o SubSeq(id, 17, 20)
                 \o <<"-">> \o SubSeq(id, 21, Len(id))
        ELSE id

\* The canonical form of a page identifier: 36 characters, "-" at the 9th,
\* 14th, 19th and 24th and nowhere else.
Canonical(id) ==
    /\ Len(id) = 36
    /\ \A i \in 1..Len(id) : (id[i] = "-") <=> (i \in {9, 14, 19, 24})

\* NotionService.query_invoice_by_notion_id up to its request: the identifier
\* is formatted and passed to client.pages.retrieve as page_id.  The caller
\* gives a sample, or the identifier that was passed on last.
RetrieveById(notion_id) ==
    /\ retrieve' = [notion_id |-> notion_id,
                    page_id |-> _format_notion_id(notion_id),
                    called |-> TRUE]
    /\ UNCHANGED <<mainVars, mergeVars, tasks, running, serverVars>>

InitFormat ==
    /\ now = 0
    /\ utcOffset = 0
    /\ templateId = FALSE
    /\ stripe = [id \in StripeIds |-> NoInvoice]
    /\ notion = <<>>
    /\ last = NoCall
    /\ seq = NoSeq
    /\ InitMergeIdleText
    /\ tasks = NoTasks
    /\ running = NoRunning
    /\ NoServer

NextFormat ==
    \E notion_id \in NotionIds \cup {retrieve.page_id} : RetrieveById(notion_id)

SpecFormat == InitFormat /\ [][NextFormat]_vars

(***************************************************************************)
(* Properties.                                                             *)
(***************************************************************************)
\* The line the merge writes for the billing period of the page.
NewLine ==
    BillingPeriodLine(_format_billing_period(billing_period.start,
                                             billing_period.end))

\* Some line of the memo begins with the label.
HasLabelLine(memo) ==
    \E i \in 1..Len(Split(memo)) : StartsWith(Split(memo)[i], LABEL)

\* The successful pages.create requests of a log.
Created(log) == {i \in 1..Len(log) : log[i].call = "pages.create" /\ log[i].ok}

\* C1 (as the claim states it, without a template): after two consecutive
\* successful transfers of a non-Deleted invoice, the first of which found no
\* record bearing its identifier in the collection, exactly one record of the
\* collection bears the identifier.
C1_TwoTransfersOneRecord ==
    (seq.n = 2 /\ ~templateId) =>
        Cardinality(Counterparts(notion, seq.id)) = 1

\* C2 (as the claim states it): one transfer of a non-Deleted invoice without a
\* counterpart creates at most one record, and the record it created is its
\* result, also when the template's blocks could not be listed or appended.
C2_OneTransferCreatesAtMostOne ==
    (last.op = "handle_stripe_event" /\ last.status # DELETED /\ ~last.existed) =>
        /\ Cardinality(Created(last.log)) <= 1
        /\ \A i \in Created(last.log) : last.notion_id = last.log[i].page

\* A step that is a transfer of a Deleted record.
DeletedTransfer ==
    last = NoCall /\ last'.op = "handle_stripe_event" /\ last'.status = DELETED

\* C3: a transfer of a Deleted record issues at most one request, an archive
\* request for the counterpart found by the payment identifier; it adds no
\* page, changes no field of any page and nothing on the payments side, the
\* only change being that the counterpart becomes archived; it returns no
\* identifier.
C3_DeletedArchivesOnly ==
    [][DeletedTransfer =>
        /\ Len(notion') = Len(notion)
        /\ \A p \in 1..Len(notion) :
              /\ notion'[p].url = notion[p].url
              /\ notion'[p].status = notion[p].status
              /\ notion'[p] # notion[p] =>
                    /\ p = Counterpart(notion, last'.id)
                    /\ notion'[p].archived
        /\ Len(last'.log) <= 1
        /\ \A i \in 1..Len(last'.log) :
              /\ last'.log[i].call = "pages.archive"
              /\ last'.log[i].page = Counterpart(notion, last'.id)
        /\ last'.notion_id = 0
        /\ stripe' = stripe]_vars

\* C3 witness: a Deleted record was transferred when no counterpart was in the
\* collection, an earlier transfer having archived the page bearing its
\* identifier; nothing was requested and the database is as it was.
C3_Witness ==
    /\ last.op = "handle_stripe_event"
    /\ last.status = DELETED
    /\ ~last.existed
    /\ last.log = <<>>
    /\ \E p \in Bearing(notion, last.id) : notion[p].archived
    /\ Counterparts(notion, last.id) = {}

\* C4 (as the claim states it): in the batch pass, a fetched record whose
\* counterpart the lookup found, last modified strictly after the record was
\* last modified on the payments side, is counted unchanged and nothing is
\* written for it.
C4_NewerCounterpartSkipped ==
    last.op = "perform_background_sync" =>
        \A i \in 1..Len(last.reports) :
            (last.reports[i].newer /\ last.reports[i].found # 0) =>
                /\ last.reports[i].outcome = "unchanged"
                /\ last.reports[i].log = <<>>

\* C5: merging the same billing period again leaves the annotation as the
\* first merge left it.
C5_MergeIdempotent ==
    \A i \in 2..(Len(history) - 1) : history[i + 1] = history[i]

\* C5 witness: the first merge appended the line to an annotation without the
\* label, and a second merge has run.
C5_Witness ==
    /\ Len(history) >= 3
    /\ ~Contains(history[1], LABEL)
    /\ Len(history[1]) > 0
    /\ history[2] # history[1]

\* C6 (as the claim states it): an annotation no line of which begins with the
\* label comes back with the labeled line appended after a newline, the whole
\* trimmed.
C6_AppendedWhenNoLabelLine ==
    (Len(history) >= 2 /\ ~HasLabelLine(history[1])) =>
        history[2] = Strip(history[1] \o <<NL>> \o NewLine)

\* C7: when a line of the annotation begins with the label, the merge keeps
\* the number of lines, writes the labeled line in place of every line that
\* begins with the label, and passes every other line through unchanged.
C7_ReplacedInPlace ==
    (Len(history) >= 2 /\ HasLabelLine(history[1])) =>
        LET old == Split(history[1])
            new == Split(history[2])
        IN  /\ Len(new) = Len(old)
            /\ \A i \in 1..Len(old) :
                  new[i] = IF StartsWith(old[i], LABEL) THEN NewLine ELSE old[i]

\* C7 witness: the annotation had a labeled line after another line, with
\* whitespace around it, and the merge rewrote the labeled line.
C7_Witness ==
    /\ Len(history) >= 2
    /\ Len(Split(history[1])) >= 2
    /\ ~StartsWith(Split(history[1])[1], LABEL)
    /\ Len(Split(history[1])[1]) > 0
    /\ StartsWith(Split(history[1])[2], LABEL)
    /\ history[2] # history[1]

\* The reports of the last batch pass that were counted as outcome.
Counted(outcome) ==
    {i \in 1..Len(last.reports) : last.reports[i].outcome = outcome}

\* C8: the batch pass handles every fetched record, in order, whatever
\* happened to the records before it: each is either skipped as stale or
\* transferred, and each failed transfer is counted in failed.
C8_FailureDoesNotAbort ==
    last.op = "perform_background_sync" =>
        /\ Len(last.reports) = Len(last.fetched)
        /\ \A i \in 1..Len(last.reports) :
              /\ last.reports[i].id = last.fetched[i].id
              /\ last.reports[i].outcome \in {"unchanged", "synced", "failed"}
              /\ last.reports[i].outcome # "unchanged" => last.reports[i].log # <<>>
        /\ last.stats.failed = Cardinality(Counted("failed"))

\* C8 witness: the transfer of the first record failed and the second record
\* was transferred.
C8_Witness ==
    /\ last.op = "perform_background_sync"
    /\ Len(last.reports) = 2
    /\ last.reports[1].outcome = "failed"
    /\ last.reports[2].outcome = "synced"

\* C9: the stats of a batch pass: total is the number of fetched records, each
\* record is counted in exactly one of synced, failed and unchanged, and
\* deleted stays 0, no archive request being issued.
C9_StatsAddUp ==
    last.op = "perform_background_sync" =>
        /\ last.stats.total = Len(last.fetched)
        /\ last.stats.synced = Cardinality(Counted("synced"))
        /\ last.stats.failed = Cardinality(Counted("failed"))
        /\ last.stats.unchanged = Cardinality(Counted("unchanged"))
        /\ last.stats.total =
              last.stats.synced + last.stats.failed + last.stats.unchanged
        /\ last.stats.deleted = 0
        /\ \A i \in 1..Len(last.reports) :
              \A k \in 1..Len(last.reports[i].log) :
                  last.reports[i].log[k].call # "pages.archive"

\* C9 witness: a pass over two records, one skipped as stale and one whose
\* transfer failed.
C9_Witness ==
    /\ last.op = "perform_background_sync"
    /\ last.stats = [total |-> 2, synced |-> 0, failed |-> 1, unchanged |-> 1,
                     deleted |-> 0]

\* C10 (as the claim states it): a batch pass whose list request succeeded
\* fetches every payments-side record last modified inside the window.
C10_AllModifiedInWindowFetched ==
    (last.op = "perform_background_sync" /\ last.ok) =>
        \A id \in StripeIds :
            (/\ stripe[id].exists
             /\ stripe[id].modified >= now - last.days_back * TicksPerDay) =>
                \E i \in 1..Len(last.fetched) : last.fetched[i].id = id

\* A step that is a document -> payments transfer.
UpdateStep == last = NoCall /\ last'.op = "handle_notion_update"

\* The payment identifier the page p links, None when there is no such page
\* or the page carries no link.
LinkedId(p) ==
    IF p \in 1..Len(notion) THEN _extract_stripe_id_from_url(notion[p].url)
    ELSE None

\* The calls of a log that write.
Writes(log) ==
    {i \in 1..Len(log) : log[i].call \notin {"pages.retrieve", "Invoice.retrieve"}}

\* The step leaves both sides as they were.
NothingWritten ==
    /\ descriptions' = descriptions
    /\ stripe' = stripe
    /\ notion' = notion
    /\ Writes(last'.log) = {}

\* C11: a document -> payments transfer from a page whose linked payment
\* identifier does not start with "in_" returns failure, requests no update
\* of the annotation and leaves both sides unchanged.
C11_BadPrefixRefused ==
    [][(/\ UpdateStep
        /\ LinkedId(last'.notion_id) \notin {None, ""}
        /\ Prefix(LinkedId(last'.notion_id)) # "in_") =>
            (~last'.ok /\ NothingWritten)]_vars

\* C11 witness: the transfer was called for the page linking "cus_1", the
\* page was retrieved, and the call returned failure.
C11_Witness ==
    /\ last.op = "handle_notion_update"
    /\ LinkedId(last.notion_id) = "cus_1"
    /\ last.lookup = last.notion_id
    /\ notion[last.lookup].billing_period.start # NoDate
    /\ ~last.ok

\* C12: a document -> payments transfer returns failure and writes nothing to
\* either side when the lookup of the page returns nothing, when the page
\* carries no linked payment identifier, and when the fetch of the invoice
\* fails.
C12_HardFailuresWriteNothing ==
    [][(/\ UpdateStep
        /\ \/ last'.lookup = 0
           \/ LinkedId(last'.notion_id) \in {None, ""}
           \/ \E i \in 1..Len(last'.log) :
                 last'.log[i].call = "Invoice.retrieve" /\ ~last'.log[i].ok) =>
            (~last'.ok /\ NothingWritten)]_vars

\* C12 witness: the page holds a billing period and links an invoice that
\* exists, the fetch of the invoice failed on all its attempts, and the call
\* returned failure.
C12_Witness ==
    /\ last.op = "handle_notion_update"
    /\ last.lookup # 0
    /\ notion[last.lookup].billing_period.start # NoDate
    /\ last.id \in StripeIds
    /\ stripe[last.id].exists
    /\ Len(last.log) = 2
    /\ last.log[2].call = "Invoice.retrieve"
    /\ ~last.log[2].ok
    /\ ~last.ok

\* C13: when the page is found, links a payment identifier and the invoice is
\* fetched, but the page holds no billing period, the transfer returns
\* success and writes nothing.
C13_NoPeriodNoOp ==
    [][(/\ UpdateStep
        /\ last'.lookup # 0
        /\ notion[last'.lookup].billing_period.start = NoDate
        /\ \E i \in 1..Len(last'.log) :
              last'.log[i].call = "Invoice.retrieve" /\ last'.log[i].ok) =>
            (last'.ok /\ NothingWritten)]_vars

\* C13 witness: such a transfer was made for an invoice that carries an
\* annotation, and returned success after two requests.
C13_Witness ==
    /\ last.op = "handle_notion_update"
    /\ last.lookup # 0
    /\ notion[last.lookup].billing_period.start = NoDate
    /\ last.id \in StripeIds
    /\ descriptions[last.id] # <<>>
    /\ Len(last.log) = 2
    /\ last.log[2].ok
    /\ last.ok

\* C14: no step of the engine adds or removes a payments-side invoice or
\* changes its creation time; an annotation changes only in a document ->
\* payments transfer, and only that of the invoice the page links; that
\* transfer changes nothing on the document side.
C14_PaymentsSideFrame ==
    [][/\ \A id \in StripeIds :
             /\ stripe'[id].exists = stripe[id].exists
             /\ stripe'[id].created = stripe[id].created
             /\ (descriptions'[id] # descriptions[id] \/ stripe'[id] # stripe[id]) =>
                   /\ UpdateStep
                   /\ id = LinkedId(last'.notion_id)
       /\ UpdateStep => notion' = notion]_vars

\* C14 witness: after payments -> document transfers added a page, a document
\* -> payments transfer has rewritten the annotation of the linked invoice
\* and left the other invoice's as it was.
C14_Witness ==
    /\ last.op = "handle_notion_update"
    /\ last.ok
    /\ Len(notion) >= 2
    /\ descriptions["in_1"] # <<"x">>
    /\ descriptions["in_2"] = <<"x">>

\* C15 (as the claim states it): the lookup by page identifier returns
\* nothing (NotFound) only when the platform reported object_not_found.
C15_NotFoundOnlyWhenReported ==
    (last.op = "handle_notion_update" /\ last.lookup = 0) =>
        last.condition = "object_not_found"

\* C16 (as the claim states it, for the list request of the batch pass): when
\* the request has failed on all its attempts the pass reports a failure.
C16_ExhaustedRetriesReportFailure ==
    (last.op = "perform_background_sync" /\ ~last.ok) => last.stats.failed > 0

NotionStatusNames == {"Draft", "Pending", "Paid", "Void"}

\* The status strings the table of StripeInvoice.to_invoice_model knows.
KnownStripeStatuses == {"draft", "open", "paid", "uncollectible", "void"}

\* C18: the status mapping of the payments -> document transfer is total:
\* each of Draft, Open, Paid, Uncollectible, Void, Deleted maps to a status
\* name of the document side, a payments-side status string outside the
\* vocabulary maps to Draft, and an event carrying one is answered without an
\* error, the page it writes carrying Draft.
C18_StatusMappingTotal ==
    /\ \A status \in InvoiceStatus :
           notion_status_map(status) \in NotionStatusNames
    /\ \A status \in StripeStatuses :
           /\ stripe_status_map(status) \in InvoiceStatus
           /\ status \notin KnownStripeStatuses =>
                 /\ stripe_status_map(status) = DRAFT
                 /\ notion_status_map(stripe_status_map(status)) = "Draft"
    /\ (last.op = "stripe_webhook" /\ last.calls = 1) =>
           /\ last.http = 200
           /\ last.status \in InvoiceStatus
           /\ last.notion_id # 0 =>
                 /\ notion[last.notion_id].status \in NotionStatusNames
                 /\ last.request.object.status \notin KnownStripeStatuses =>
                       notion[last.notion_id].status = "Draft"

\* C18 witness: an event whose invoice carries a status outside the vocabulary
\* was transferred, and the page written carries Draft.
C18_Witness ==
    /\ last.op = "stripe_webhook"
    /\ last.request.object.status = "unknown"
    /\ last.calls = 1
    /\ last.ok
    /\ last.notion_id # 0
    /\ notion[last.notion_id].status = "Draft"

\* A step that is one request to the payments webhook.
WebhookStep == last = NoCall /\ last'.op = "stripe_webhook"

\* C19: a request to the payments webhook without a signature header, or with
\* one that fails verification, is answered with HTTP 400, calls no engine
\* operation and writes to neither side.
C19_BadSignatureRejected ==
    [][(WebhookStep /\ last'.request.signature # "signed") =>
          /\ last'.http = 400
          /\ last'.calls = 0
          /\ NothingWritten]_vars

\* C19 witness: a request with a forged signature carrying a well-formed
\* "invoice.created" event was answered with HTTP 400.
C19_Witness ==
    /\ last.op = "stripe_webhook"
    /\ last.request.signature = "forged"
    /\ last.request.type = <<"invoice", "created">>
    /\ last.request.object.id = "in_1"
    /\ last.http = 400

\* C20 (as the claim states it): for a request with a valid signature and a
\* well-formed invoice object, an event of any "invoice." type calls the
\* payments -> document transfer once for that invoice, and an event of any
\* other type is acknowledged with success and calls nothing.
C20_LifecycleEventsTransferred ==
    (/\ last.op = "stripe_webhook"
     /\ last.request.signature = "signed"
     /\ last.request.object.id # None) =>
        IF startswith_invoice(last.request.type)
        THEN last.calls = 1 /\ last.id = last.request.object.id
        ELSE /\ last.http = 200
             /\ last.success
             /\ last.calls = 0
             /\ last.log = <<>>

\* The link of the page the last document -> payments transfer looked up.
LookedUpLink == notion[last.lookup].url

\* The identifier the transfer read from that link.
ReadFromLink == _extract_stripe_id_from_url(LookedUpLink)

\* C29 (as the claim states it): from a link "<prefix>/invoices/<id>" and from
\* a link "<prefix>/invoices/<id>?<query>" the transfer reads the identifier
\* <id>, and from an absent link it reads none.
C29_QueryParametersRemoved ==
    (last.op = "handle_notion_update" /\ last.lookup # 0) =>
        /\ LookedUpLink = NoUrl => ReadFromLink = None
        /\ \A id \in {"in_1", "in_2", "cus_1"} :
              /\ LookedUpLink = StripeLink(id) => ReadFromLink = id
              /\ (/\ Len(LookedUpLink) > Len(StripeLink(id))
                  /\ SubSeq(LookedUpLink, 1, Len(StripeLink(id))) = StripeLink(id)
                  /\ LookedUpLink[Len(StripeLink(id)) + 1] = "?") => ReadFromLink = id

\* C30: the identifier read back from the link written for an identifier is
\* that identifier, and the page a payments -> document transfer wrote, by a
\* create or by an update, carries a title and a link from which the
\* identifier is read back, so that a lookup of the identifier finds a page.
C30_LinkRoundTrip ==
    /\ \A id \in StripeIds \cup {"cus_1"} :
           _extract_stripe_id_from_url(StripeLink(id)) = id
    /\ (last.op = "handle_stripe_event" /\ last.ok /\ last.status # DELETED) =>
           /\ last.notion_id \in 1..Len(notion)
           /\ notion[last.notion_id].url = StripeLink(last.id)
           /\ _extract_stripe_id_from_url(notion[last.notion_id].url) = last.id
           /\ notion[last.notion_id].title \notin {"", None}
           /\ query_invoice_by_stripe_id(notion, last.id, TRUE) # 0

\* C30 witness: a transfer updated the page an earlier one had created, and
\* the identifier is read back from its link.
C30_Witness ==
    /\ last.op = "handle_stripe_event"
    /\ last.ok
    /\ last.existed
    /\ last.status # DELETED
    /\ \E i \in 1..Len(last.log) : last.log[i].call = "pages.update"
    /\ _extract_stripe_id_from_url(notion[last.notion_id].url) = last.id

\* The instants of the model.
Instants == 0..(MaxDays * TicksPerDay + MaxUtcOffset)

\* C25: the batch pass never counts a record unchanged, and calls the
\* transfer for it, when the lookup returned no counterpart, when the
\* counterpart's last-modified instant is absent, or when the record's own
\* instant is absent.
C25_AmbiguousInputsTransfer ==
    /\ \A existing_invoice \in 0..MaxPages, t \in Instants :
           /\ ~is_unchanged(0, t, t)
           /\ ~is_unchanged(0, t + 1, t)
           /\ ~is_unchanged(existing_invoice, NoTime, t)
           /\ ~is_unchanged(existing_invoice, t, NoTime)
    /\ last.op = "perform_background_sync" =>
           \A i \in 1..Len(last.reports) :
               last.reports[i].found = 0 =>
                   /\ last.reports[i].outcome \in {"synced", "failed"}
                   /\ last.reports[i].log # <<>>

\* C25 witness: the pass transferred a record whose lookup returned no
\* counterpart, and created its page.
C25_Witness ==
    /\ last.op = "perform_background_sync"
    /\ \E i \in 1..Len(last.reports) :
          /\ last.reports[i].found = 0
          /\ ~last.reports[i].existed
          /\ last.reports[i].outcome = "synced"
          /\ Created(last.reports[i].log) # {}

\* C26 (as the claim states it): the staleness comparison of the batch pass
\* gives the order of the two instants on the UTC timeline, whatever the UTC
\* offset of the local clock: a record is counted unchanged exactly when the
\* counterpart the lookup returned was last modified strictly after the
\* instant the record carries.
C26_ComparedOnOneTimeline ==
    last.op = "perform_background_sync" =>
        \A i \in 1..Len(last.reports) :
            (last.reports[i].outcome = "unchanged") <=> last.reports[i].later

\* C27 (as the claim states it): the lookup of the batch pass returns a
\* counterpart whenever a record of the collection bears the identifier.
C27_LookupComplete ==
    last.op = "perform_background_sync" =>
        \A i \in 1..Len(last.reports) :
            last.reports[i].existed => last.reports[i].found # 0

\* C28: the record the lookup of the batch pass returns is the first record
\* of the collection, in scan order, that bears the identifier.
C28_LookupSound ==
    last.op = "perform_background_sync" =>
        \A i \in 1..Len(last.reports) :
            last.reports[i].found # 0 =>
                /\ last.reports[i].existed
                /\ last.reports[i].found = last.reports[i].first
                /\ last.reports[i].found \in 1..Len(notion)
                /\ _extract_stripe_id_from_url(notion[last.reports[i].found].url)
                       = last.reports[i].id

\* C28 witness: two records of the collection bore the identifier and the
\* lookup returned the first.
C28_Witness ==
    /\ last.op = "perform_background_sync"
    /\ \E i \in 1..Len(last.reports) :
          /\ last.reports[i].matches = 2
          /\ last.reports[i].found # 0
          /\ last.reports[i].found = last.reports[i].first

\* C22: the engine does not protect two simultaneous transfers of one
\* identifier: the write of a transfer goes by what its own lookup returned,
\* whatever was written since.  A transfer whose lookup returned nothing
\* creates a record bearing the identifier, also when another transfer has
\* created one in between; a transfer whose lookup returned a record
\* overwrites that record's fields.
C22_WriteGoesByOwnLookup ==
    [][\A t \in Handlers :
          (tasks[t].pc = "write" /\ tasks'[t].pc # "write") =>
              IF tasks[t].found = 0
              THEN /\ Len(notion') = Len(notion) + 1
                   /\ _extract_stripe_id_from_url(notion'[Len(notion')].url)
                          = tasks[t].invoice.id
              ELSE /\ Len(notion') = Len(notion)
                   /\ notion'[tasks[t].found].status
                          = notion_status_map(tasks[t].invoice.status)]_vars

\* C22 witness: two transfers of one identifier ran on two server processes,
\* both lookups returned nothing, both created: two records bear the
\* identifier.
C22_Witness ==
    /\ \A t \in Handlers :
          /\ tasks[t].pc = "idle"
          /\ tasks[t].invoice.id = "in_1"
          /\ tasks[t].found = 0
    /\ Cardinality(Counterparts(notion, "in_1")) = 2

\* C23: in a server process, a webhook handler and the periodic task (the
\* startup sync included) are never inside engine operations at once: no
\* engine call of one begins between the lookup and the write of an engine
\* call of the other.
C23_DriversSerialized ==
    \A t \in Handlers :
        /\ tasks[t].loop = tasks["periodic"].loop
        /\ ~(InCall("periodic") /\ InCall(t))

\* C23 witness: the batch pass stands between the lookup and the write of a
\* transfer while a request for the same identifier waits for the loop.
C23_Witness ==
    /\ tasks["periodic"].pc = "write"
    /\ \E t \in Handlers :
          /\ tasks[t].pc = "body"
          /\ tasks[t].invoice.id = tasks["periodic"].invoice.id

\* The payload is not a JSON object with a "page_id" that names something.
Malformed(payload) ==
    \/ payload.kind # "object"
    \/ "page_id" \notin payload.keys
    \/ payload.page_id = 0

\* C21: the document-side webhook answers every malformed payload (not JSON,
\* not an object, without "page_id") with a response {success: false,
\* message}, lets no exception escape, and without a "page_id" calls no
\* document -> payments transfer and writes nothing.
C21_MalformedPayloadRejected ==
    [][(last = NoCall /\ last'.op = "notion_webhook") =>
          /\ ~last'.raised
          /\ last'.http = 200
          /\ Malformed(last'.payload) =>
                /\ ~last'.success
                /\ last'.message # ""
                /\ last'.calls = 0
                /\ NothingWritten]_vars

\* C21 witness: a body that is not JSON was answered with a failure response,
\* while a page with a billing period and a linked invoice was there to sync.
C21_Witness ==
    /\ last.op = "notion_webhook"
    /\ last.payload.kind = "not_json"
    /\ ~last.success
    /\ last.message = "Error processing webhook"
    /\ notion[1].billing_period.start # NoDate
    /\ notion[1].url = StripeLink("in_1")

\* C24 (as the claim states it): a transfer that a webhook event triggers, of
\* an invoice whose counterpart was last modified strictly after the invoice
\* was last modified on the payments side, and strictly after the instant
\* stripe_updated_at that the batch pass compares it with, is skipped: no
\* write is issued and the document side is left as it was.  (Stated for the
\* transfers that reported success and created nothing.)
C24_WebhookTransferGated ==
    [][(/\ last = NoCall
        /\ last'.op = "handle_stripe_event"
        /\ last'.status # DELETED
        /\ last'.ok
        /\ Created(last'.log) = {}
        /\ stripe[last'.id].exists
        /\ Counterpart(notion, last'.id) # 0
        /\ notion[Counterpart(notion, last'.id)].edited
               > stripe[last'.id].modified
        /\ is_unchanged(Counterpart(notion, last'.id),
                        notion[Counterpart(notion, last'.id)].edited,
                        datetime_now)) =>
           /\ last'.log = <<>>
           /\ notion' = notion]_vars

\* Status names a user of the document side may set that the table of
\* NotionInvoice.to_invoice_model does not hold, and the unset status.
UnmappedStatusNames == {"Overdue", "Archived", "", None}

\* C31 (as the claim states it): the status vocabulary is mapped in both
\* directions: the status name a payments -> document transfer wrote on a
\* page, for an invoice whose status is one of Draft, Open, Paid,
\* Uncollectible, Void, maps back to the status that was transferred; and a
\* status name outside the table maps back to Draft.
C31_StatusRoundTrip ==
    /\ \A name \in UnmappedStatusNames : invoice_status_map(name) = DRAFT
    /\ (/\ last.op = "stripe_webhook"
        /\ last.calls = 1
        /\ last.ok
        /\ last.notion_id # 0
        /\ last.status \in {DRAFT, OPEN, PAID, UNCOLLECTIBLE, VOID}) =>
           invoice_status_map(notion[last.notion_id].status) = last.status

\* C32 (as the claim states it): a document -> payments transfer that has
\* read a page whose linked payment identifier is absent, empty or does not
\* start with "in_" returns failure, and no request it makes after reading
\* the page is attempted more than once.
C32_InvalidInputNotRetried ==
    [][(/\ UpdateStep
        /\ last'.lookup # 0
        /\ \/ LinkedId(last'.notion_id) \in {None, ""}
           \/ Prefix(LinkedId(last'.notion_id)) # "in_") =>
            /\ ~last'.ok
            /\ \A i \in 1..Len(last'.log) :
                  last'.log[i].call # "pages.retrieve" =>
                      last'.log[i].attempts <= 1]_vars

\* C33: a payments -> document transfer of a record that is not Deleted
\* returns success exactly when it returns a page identifier; the identifier
\* it returns names a page of the database whose "Stripe link" is the link of
\* the transferred invoice; a failed transfer returns no identifier.
C33_SuccessIffIdentifier ==
    (last.op = "handle_stripe_event" /\ last.status # DELETED) =>
        /\ last.ok <=> last.notion_id # 0
        /\ last.notion_id # 0 =>
              /\ last.notion_id \in 1..Len(notion)
              /\ notion[last.notion_id].url = StripeLink(last.id)
              /\ _extract_stripe_id_from_url(notion[last.notion_id].url)
                     = last.id
        /\ ~last.ok => last.notion_id = 0

\* C33 witness: with a template configured, the fallback creation succeeded
\* after the copy of the template's blocks had failed, and the transfer
\* returned the page of the fallback.
C33_Witness ==
    /\ last.op = "handle_stripe_event"
    /\ last.status # DELETED
    /\ templateId
    /\ last.ok
    /\ \E i \in 1..Len(last.log) :
          last.log[i].call = "blocks.append" /\ ~last.log[i].ok
    /\ last.notion_id = Len(notion)
    /\ notion[last.notion_id].url = StripeLink(last.id)

\* C34: the shutdown handler cancels the periodic task if one was started;
\* once the handler has run no step begins a pass; and the cancellation never
\* interrupts the body: a task that is at a request is neither marked for
\* cancellation nor ended by the next step, it is ended only where it sleeps.
C34_ShutdownCancelsBetweenPasses ==
    [][/\ (lifespan.phase = "signalled" /\ lifespan'.phase = "stopped"
           /\ background_task.pc = "sleep")
              => background_task'.must_cancel
       /\ lifespan.phase = "stopped"
              => ~(background_task.pc # "fetch" /\ background_task'.pc = "fetch")
       /\ background_task.pc \in Calls
              => /\ background_task'.pc \notin {"cancelled", "ended"}
                 /\ ~background_task'.must_cancel
       /\ background_task'.pc = "cancelled" => background_task.pc \in {"sleep", "cancelled"}]_vars

\* C34 happens: the server was told to stop while the task was writing a
\* record; the page was written, and the task was cancelled afterwards.
C34_Witness ==
    /\ lifespan.phase = "stopped"
    /\ lifespan.during = "write"
    /\ Len(notion) > lifespan.pages
    /\ background_task.pc = "cancelled"

\* A step that is a payments -> document transfer: an event handled, or a
\* batch pass.
TransferToNotion ==
    last = NoCall /\ last'.op \in {"handle_stripe_event", "perform_background_sync"}

\* C35: a payments -> document transfer leaves the billing period of every
\* page that existed as it was, whatever else it writes to the page, and it
\* changes nothing on the payments side: no invoice and no annotation.
C35_TransferKeepsBillingPeriod ==
    [][TransferToNotion =>
        /\ \A p \in 1..Len(notion) :
              notion'[p].billing_period = notion[p].billing_period
        /\ stripe' = stripe
        /\ descriptions' = descriptions]_vars

\* C35 happens: a transfer has rewritten the status of the page that holds a
\* billing period, and the page still holds it.
C35_Witness ==
    /\ last.op = "handle_stripe_event"
    /\ last.ok
    /\ last.existed
    /\ notion[1].status = "Pending"
    /\ notion[1].billing_period.start # NoDate

\* C36: a transfer of a Deleted record whose counterpart does not exist, or
\* whose lookup did not find it, reports failure, returns no identifier and
\* changes nothing on either side; a transfer of a Deleted record reports
\* success only if a counterpart existed, the lookup found it and the archive
\* request for it succeeded, the page being archived afterwards.
C36_DeletedWithoutCounterpartFails ==
    [][DeletedTransfer =>
        /\ (~last'.existed \/ last'.log = <<>>) =>
              /\ ~last'.ok
              /\ last'.notion_id = 0
              /\ last'.log = <<>>
              /\ notion' = notion
              /\ stripe' = stripe
              /\ descriptions' = descriptions
        /\ last'.ok =>
              /\ last'.existed
              /\ last'.log = <<Write("pages.archive",
                                     Counterpart(notion, last'.id), TRUE)>>
              /\ notion'[Counterpart(notion, last'.id)].archived]_vars

\* C36 happens: a Deleted record was transferred while its counterpart was in
\* the collection, the lookup failed, and the transfer reported failure with
\* the page not archived.
C36_Witness ==
    /\ last.op = "handle_stripe_event"
    /\ last.status = DELETED
    /\ last.existed
    /\ last.log = <<>>
    /\ ~last.ok
    /\ \E p \in Counterparts(notion, last.id) : ~notion[p].archived

\* C37: perform_background_sync terminates: if every attempt of a request
\* returns or fails, a pass that was begun, at startup or by the task,
\* reaches the point where it has returned its stats, whatever list was
\* fetched and whichever attempts fail; and no request is attempted more
\* than stop_after_attempt times.
C37_BackgroundSyncTerminates ==
    /\ [](background_task.pc \in Calls =>
             background_task.attempt \in 1..stop_after_attempt)
    /\ (background_task.pc \in {"fetch", "staleness", "lookup", "write"})
           ~> (background_task.pc \in {"recent", "sleep", "off"})

\* C37 happens: a pass over two fetched records has returned its stats after
\* the write of a record failed at its last attempt.
C37_Witness ==
    /\ background_task.pc = "recent"
    /\ background_task.stats.total = 2
    /\ background_task.stats.failed >= 1
    /\ background_task.stats.total =
           background_task.stats.synced + background_task.stats.failed
               + background_task.stats.unchanged

\* C38: a failure in an iteration of _run_periodic_sync does not end the
\* task: unless the task is cancelled, whenever a task exists, after any
\* number of iterations begun, failed or not, one more iteration eventually
\* begins; and within an iteration the payments -> document pass runs before
\* the document -> payments pass.
C38_TaskSurvivesFailures ==
    /\ [](background_task.passes \in
              {<<>>, <<"stripe_to_notion">>,
               <<"stripe_to_notion", "notion_to_stripe">>})
    /\ [](background_task.pc = "recent" =>
              background_task.passes = <<"stripe_to_notion", "notion_to_stripe">>)
    /\ \A iteration \in {0, 1} :
          (/\ lifespan.phase # "startup"
           /\ background_task.pc # "off"
           /\ background_task.iteration = iteration)
              ~> (\/ background_task.iteration # iteration
                  \/ background_task.pc = "cancelled")

\* C38 happens: the second iteration of the task, in which a request failed
\* at its last attempt after both passes were begun in their order, has
\* ended, and the task sleeps until the next one.
C38_Witness ==
    /\ lifespan.phase = "serving"
    /\ background_task.pc = "sleep"
    /\ background_task.iteration = 1
    /\ background_task.failed
    /\ background_task.passes = <<"stripe_to_notion", "notion_to_stripe">>
    /\ background_task.stats.failed = 1
    /\ ~background_task.must_cancel

\* C39 (as the claim states it): every identifier passed to the lookup by
\* page identifier is in the canonical form; _format_notion_id returns the
\* canonical form for an identifier of 32 characters besides hyphens, returns
\* its result again when applied to it, and returns any other identifier
\* unchanged.
C39_PassedIdsCanonical ==
    retrieve.called =>
        /\ Canonical(retrieve.page_id)
        /\ _format_notion_id(retrieve.page_id) = retrieve.page_id
        /\ Len(without_hyphens(retrieve.notion_id)) # 32 =>
               retrieve.page_id = retrieve.notion_id

====
